---- MODULE Spec2Model ----
(***************************************************************************)
(* docker-lint: tokenizer (internal/parser lexer), parser and rule engine  *)
(* (internal/analyzer) as a state machine.  Strings are TLA+ strings; a    *)
(* character is a string of length one.  An input text is the sequence of  *)
(* its physical lines, i.e. the text split on "\n": a text that ends with  *)
(* a newline has "" as its last line, and the empty text is <<"">>.        *)
(***************************************************************************)
EXTENDS Integers, Sequences, FiniteSets, TLC

VARIABLES input, lexer, peekedToken, lineStart, toks,
          pc, currentToken, errors, inlineIgnores, dockerfile, currentStage,
          stageIndex, parseResult,
          config, calls,
          registry, analyses

lexVars == <<input, lexer, peekedToken, lineStart, toks>>

parseVars == <<pc, currentToken, errors, inlineIgnores, dockerfile, currentStage,
               stageIndex, parseResult>>

anVars == <<config, calls>>

conVars == <<registry, analyses>>

vars == <<lexVars, parseVars, anVars, conVars>>

(***************************************************************************)
(* Bounds                                                                  *)
(***************************************************************************)
MaxLines == 3

MaxTokens == 7

MaxParseLines == 4

MaxMapSeed == 1

MaxFileLines == 3

MaxCalls == 2

MaxRuleLines == 5

MaxRunLines == 2

MaxAnalyses == 2

MaxFindings == 3

MaxFormatLines == 2

(***************************************************************************)
(* Strings                                                                 *)
(***************************************************************************)
Ch(s, i) == SubSeq(s, i, i)

Chars(s) == {Ch(s, i) : i \in 1..Len(s)}

LowerLetters == "abcdefghijklmnopqrstuvwxyz"

UpperLetters == "ABCDEFGHIJKLMNOPQRSTUVWXYZ"

IsBlank(c) == c = " " \/ c = "\t"

HasPrefix(s, p) == Len(s) >= Len(p) /\ SubSeq(s, 1, Len(p)) = p

HasSuffix(s, p) == Len(s) >= Len(p) /\ SubSeq(s, Len(s) - Len(p) + 1, Len(s)) = p

TrimPrefix(s, p) == IF HasPrefix(s, p) THEN SubSeq(s, Len(p) + 1, Len(s)) ELSE s

TrimSuffix(s, p) == IF HasSuffix(s, p) THEN SubSeq(s, 1, Len(s) - Len(p)) ELSE s

\* strings.Index: 0-based position of the first occurrence of p in s, or -1.
Index(s, p) ==
    LET hits == {i \in 1..(Len(s) - Len(p) + 1) : SubSeq(s, i, i + Len(p) - 1) = p}
    IN IF hits = {} THEN -1
       ELSE (CHOOSE i \in hits : \A j \in hits : i <= j) - 1

Contains(s, p) == Index(s, p) >= 0

\* strings.TrimRight(s, cutset) / TrimLeft for a set of characters.
TrimRightSet(s, cut) ==
    LET keep == {i \in 1..Len(s) : Ch(s, i) \notin cut}
    IN IF keep = {} THEN ""
       ELSE SubSeq(s, 1, CHOOSE i \in keep : \A j \in keep : j <= i)

\* strings.Trim: the cutset trimmed on the right, then on the left.
TrimSet(s, cut) ==
    LET TrimLeftSet(r) ==
            LET keep == {i \in 1..Len(r) : Ch(r, i) \notin cut}
            IN IF keep = {} THEN ""
               ELSE SubSeq(r, CHOOSE i \in keep : \A j \in keep : i <= j, Len(r))
    IN TrimLeftSet(TrimRightSet(s, cut))

TrimSpace(s) == TrimSet(s, {" ", "\t", "\n", "\r"})

RECURSIVE ToUpper(_)
ToUpper(s) ==
    LET UpperOf(c) ==
            IF c \in Chars(LowerLetters)
            THEN Ch(UpperLetters, CHOOSE i \in 1..Len(LowerLetters) : Ch(LowerLetters, i) = c)
            ELSE c
    IN IF s = "" THEN "" ELSE UpperOf(Ch(s, 1)) \o ToUpper(SubSeq(s, 2, Len(s)))

RECURSIVE ToLower(_)
ToLower(s) ==
    LET LowerOf(c) ==
            IF c \in Chars(UpperLetters)
            THEN Ch(LowerLetters, CHOOSE i \in 1..Len(UpperLetters) : Ch(UpperLetters, i) = c)
            ELSE c
    IN IF s = "" THEN "" ELSE LowerOf(Ch(s, 1)) \o ToLower(SubSeq(s, 2, Len(s)))

(***************************************************************************)
(* Tokens                                                                  *)
(***************************************************************************)
\* the token types
TokenType ==
    [Instruction |-> "INSTRUCTION",
     Argument |-> "ARGUMENT",
     Comment |-> "COMMENT",
     Newline |-> "NEWLINE",
     EOF |-> "EOF",
     Error |-> "ERROR"]

Token(t, v, l, c) == [type |-> t, value |-> v, line |-> l, column |-> c]

NoToken == [type |-> "nil"]

IsValidInstruction(s) ==
    LET validInstructions ==
            {"FROM", "RUN", "COPY", "ADD", "ENV", "ARG", "EXPOSE", "WORKDIR", "USER",
             "LABEL", "VOLUME", "CMD", "ENTRYPOINT", "HEALTHCHECK", "SHELL",
             "STOPSIGNAL", "ONBUILD", "MAINTAINER"}
    IN ToUpper(s) \in validInstructions

(***************************************************************************)
(* Lexer.  rd is the reader: the index of the next physical line to read.  *)
(* linePos is 0-based as in the source.                                    *)
(***************************************************************************)
NewLexer ==
    [rd |-> 1, line |-> 0, column |-> 0, currentLine |-> "", linePos |-> 0,
     atEOF |-> FALSE]

\* The loop of readNextLine.  ReadString is bufio.Reader.ReadString('\n') on
\* the k-th physical line: the line without its newline, and whether the read
\* hit the end of the input (io.EOF).
RECURSIVE readLoop(_, _, _, _, _)
readLoop(inp, k, fullLine, ln, firstLine) ==
    LET ReadString ==
            IF k <= Len(inp) THEN [line |-> inp[k], eof |-> k = Len(inp)]
            ELSE [line |-> "", eof |-> TRUE]
        r == ReadString
        ln1 == IF firstLine THEN ln + 1 ELSE ln
        line == TrimRightSet(r.line, {"\r", "\n"})
    IN  IF HasSuffix(line, "\\")
        THEN LET full1 == fullLine \o TrimSuffix(line, "\\") \o " "
             IN IF r.eof
                THEN [rd |-> k + 1, full |-> full1, line |-> ln1, eof |-> TRUE]
                ELSE readLoop(inp, k + 1, full1, ln1 + 1, FALSE)
        ELSE [rd |-> k + 1, full |-> fullLine \o line, line |-> ln1, eof |-> r.eof]

\* readNextLine: the lexer after the read, and the boolean it returns.
readNextLine(inp, L) ==
    LET r == readLoop(inp, L.rd, "", L.line, TRUE)
        L1 == [L EXCEPT !.rd = r.rd, !.line = r.line, !.currentLine = r.full,
                        !.linePos = 0, !.column = 0,
                        !.atEOF = L.atEOF \/ r.eof]
    IN [lx |-> L1, ok |-> Len(L1.currentLine) > 0 \/ ~L1.atEOF]

RECURSIVE skipWhitespacePos(_, _)
skipWhitespacePos(s, pos) ==
    IF pos < Len(s) /\ IsBlank(Ch(s, pos + 1)) THEN skipWhitespacePos(s, pos + 1)
    ELSE pos

skipWhitespace(L) == [L EXCEPT !.linePos = skipWhitespacePos(L.currentLine, L.linePos)]

\* the characters scanWord accepts: letters, digits and the underscore
IsWordChar(c) ==
    LET IsLetter == c \in Chars(LowerLetters) \cup Chars(UpperLetters)
        IsDigit == c \in Chars("0123456789")
    IN IsLetter \/ IsDigit \/ c = "_"

RECURSIVE scanWordEnd(_, _)
scanWordEnd(s, pos) ==
    IF pos < Len(s) /\ IsWordChar(Ch(s, pos + 1)) THEN scanWordEnd(s, pos + 1)
    ELSE pos

\* scanWord: the word and the lexer after it.
scanWord(L) ==
    LET e == scanWordEnd(L.currentLine, L.linePos)
    IN [word |-> SubSeq(L.currentLine, L.linePos + 1, e), lx |-> [L EXCEPT !.linePos = e]]

RECURSIVE scanArgLoop(_, _, _, _, _)
scanArgLoop(s, pos, result, inDouble, inSingle) ==
    IF pos >= Len(s) THEN [pos |-> pos, result |-> result]
    ELSE LET ch == Ch(s, pos + 1)
         IN IF ch = "\\" /\ pos + 1 < Len(s) /\ ~inSingle
            THEN LET nextCh == Ch(s, pos + 2)
                 IN IF nextCh = "n"
                    THEN scanArgLoop(s, pos + 2, result \o "\n", inDouble, inSingle)
                    ELSE IF nextCh = "t"
                    THEN scanArgLoop(s, pos + 2, result \o "\t", inDouble, inSingle)
                    ELSE IF nextCh \in {"\"", "'", "\\", " "}
                    THEN scanArgLoop(s, pos + 2, result \o nextCh, inDouble, inSingle)
                    ELSE scanArgLoop(s, pos + 1, result \o ch, inDouble, inSingle)
            ELSE IF ch = "\"" /\ ~inSingle
            THEN scanArgLoop(s, pos + 1, result \o ch, ~inDouble, inSingle)
            ELSE IF ch = "'" /\ ~inDouble
            THEN scanArgLoop(s, pos + 1, result \o ch, inDouble, ~inSingle)
            ELSE IF ch = "#" /\ ~inDouble /\ ~inSingle
            THEN [pos |-> pos, result |-> result]
            ELSE scanArgLoop(s, pos + 1, result \o ch, inDouble, inSingle)

\* scanArgument: the argument and the lexer after it.
scanArgument(L) ==
    LET L1 == skipWhitespace(L)
    IN IF L1.linePos >= Len(L1.currentLine) THEN [arg |-> "", lx |-> L1]
       ELSE LET r == scanArgLoop(L1.currentLine, L1.linePos, "", FALSE, FALSE)
            IN [arg |-> TrimSpace(r.result), lx |-> [L1 EXCEPT !.linePos = r.pos]]

\* scanToken after the "read next line if needed" part.
scanLine(L0) ==
    LET L == skipWhitespace(L0)
        startCol == L.linePos + 1
        isAtLineStart == \A i \in 1..L.linePos : IsBlank(Ch(L.currentLine, i))
    IN  IF L.linePos >= Len(L.currentLine)
        THEN [tok |-> Token(TokenType.Newline, "\n", L.line, L.linePos + 1),
              lx |-> [L EXCEPT !.currentLine = ""]]
        ELSE IF Ch(L.currentLine, L.linePos + 1) = "#"
        THEN [tok |-> Token(TokenType.Comment, SubSeq(L.currentLine, L.linePos + 1, Len(L.currentLine)),
                            L.line, startCol),
              lx |-> [L EXCEPT !.linePos = Len(L.currentLine)]]
        ELSE IF isAtLineStart
        THEN LET w == scanWord(L)
             IN IF IsValidInstruction(w.word)
                THEN [tok |-> Token(TokenType.Instruction, ToUpper(w.word), L.line, startCol), lx |-> w.lx]
                ELSE [tok |-> Token(TokenType.Argument, w.word, L.line, startCol), lx |-> w.lx]
        ELSE LET a == scanArgument(L)
             IN [tok |-> Token(TokenType.Argument, a.arg, L.line, startCol), lx |-> a.lx]

\* scanToken: the token and the lexer after the call.
scanToken(inp, L) ==
    IF L.currentLine = "" \/ L.linePos >= Len(L.currentLine)
    THEN IF L.atEOF
         THEN [tok |-> Token(TokenType.EOF, "", L.line, L.column), lx |-> L]
         ELSE LET r == readNextLine(inp, L)
              IN IF ~r.ok
                 THEN [tok |-> Token(TokenType.EOF, "", r.lx.line, r.lx.column), lx |-> r.lx]
                 ELSE scanLine(r.lx)
    ELSE scanLine(L)

\* Lexer.NextToken and Lexer.PeekToken: token, lexer and peeked token after.
NextToken(inp, L, peeked) ==
    IF peeked # NoToken THEN [tok |-> peeked, lx |-> L, peeked |-> NoToken]
    ELSE LET r == scanToken(inp, L) IN [tok |-> r.tok, lx |-> r.lx, peeked |-> NoToken]

\* PeekToken scanning the next token without keeping it for the next call
PeekTokenForgets(inp, L, peeked) ==
    IF peeked # NoToken THEN [tok |-> peeked, lx |-> L, peeked |-> NoToken]
    ELSE LET r == scanToken(inp, L) IN [tok |-> r.tok, lx |-> r.lx, peeked |-> NoToken]

PeekToken(inp, L, peeked) ==
    IF peeked # NoToken THEN [tok |-> peeked, lx |-> L, peeked |-> peeked]
    ELSE LET r == scanToken(inp, L) IN [tok |-> r.tok, lx |-> r.lx, peeked |-> r.tok]


(***************************************************************************)
(* Parser helpers                                                          *)
(***************************************************************************)
RECURSIVE Join(_, _)
Join(parts, sep) ==
    IF parts = <<>> THEN ""
    ELSE IF Len(parts) = 1 THEN parts[1]
    ELSE parts[1] \o sep \o Join(Tail(parts), sep)

\* strings.Split(s, sep) for a one-character separator
RECURSIVE Split(_, _)
Split(s, sep) ==
    LET i == Index(s, sep)
    IN IF i < 0 THEN <<s>>
       ELSE <<SubSeq(s, 1, i)>> \o Split(SubSeq(s, i + 2, Len(s)), sep)

\* strings.SplitN(s, sep, 2) for a one-character separator
SplitN2(s, sep) ==
    LET i == Index(s, sep)
    IN IF i < 0 THEN <<s>> ELSE <<SubSeq(s, 1, i), SubSeq(s, i + 2, Len(s))>>

RECURSIVE splitArgsLoop(_, _, _, _, _, _)
splitArgsLoop(s, i, result, current, inDouble, inSingle) ==
    IF i >= Len(s)
    THEN IF Len(current) > 0 THEN Append(result, current) ELSE result
    ELSE LET ch == Ch(s, i + 1)
         IN IF ch = "\\" /\ i + 1 < Len(s) /\ ~inSingle
            THEN splitArgsLoop(s, i + 2, result, current \o ch \o Ch(s, i + 2), inDouble, inSingle)
            ELSE IF ch = "\"" /\ ~inSingle
            THEN splitArgsLoop(s, i + 1, result, current \o ch, ~inDouble, inSingle)
            ELSE IF ch = "'" /\ ~inDouble
            THEN splitArgsLoop(s, i + 1, result, current \o ch, inDouble, ~inSingle)
            ELSE IF IsBlank(ch) /\ ~inDouble /\ ~inSingle
            THEN IF Len(current) > 0
                 THEN splitArgsLoop(s, i + 1, Append(result, current), "", inDouble, inSingle)
                 ELSE splitArgsLoop(s, i + 1, result, current, inDouble, inSingle)
            ELSE splitArgsLoop(s, i + 1, result, current \o ch, inDouble, inSingle)

splitArgs(s) == splitArgsLoop(TrimSpace(s), 0, <<>>, "", FALSE, FALSE)

isExecForm(s) == HasPrefix(TrimSpace(s), "[") /\ HasSuffix(TrimSpace(s), "]")

\* encoding/json: skip JSON whitespace from 0-based position i
RECURSIVE jsonSkip(_, _)
jsonSkip(s, i) ==
    LET IsSpace(c) == c \in {" ", "\t", "\n", "\r"}
    IN IF i < Len(s) /\ IsSpace(Ch(s, i + 1)) THEN jsonSkip(s, i + 1) ELSE i

\* encoding/json: a string literal whose opening quote is at 0-based position
\* i - 1; the escapes \" \\ \/ \n \t are decoded, any other escape and a
\* missing closing quote are errors.
RECURSIVE jsonString(_, _, _)
jsonString(s, i, acc) ==
    IF i >= Len(s) THEN [ok |-> FALSE, pos |-> i, val |-> acc]
    ELSE LET ch == Ch(s, i + 1)
         IN IF ch = "\"" THEN [ok |-> TRUE, pos |-> i + 1, val |-> acc]
            ELSE IF ch = "\\"
            THEN IF i + 1 >= Len(s) THEN [ok |-> FALSE, pos |-> i, val |-> acc]
                 ELSE LET e == Ch(s, i + 2)
                      IN IF e \in {"\"", "\\", "/"} THEN jsonString(s, i + 2, acc \o e)
                         ELSE IF e = "n" THEN jsonString(s, i + 2, acc \o "\n")
                         ELSE IF e = "t" THEN jsonString(s, i + 2, acc \o "\t")
                         ELSE [ok |-> FALSE, pos |-> i, val |-> acc]
            ELSE IF ch \in {"\n", "\t", "\r"} THEN [ok |-> FALSE, pos |-> i, val |-> acc]
            ELSE jsonString(s, i + 1, acc \o ch)

\* encoding/json: the elements of an array of strings, from 0-based position
\* i just before an element
RECURSIVE jsonElems(_, _, _)
jsonElems(s, i, acc) ==
    LET j == jsonSkip(s, i)
    IN IF j >= Len(s) \/ Ch(s, j + 1) # "\"" THEN [ok |-> FALSE, val |-> acc]
       ELSE LET r == jsonString(s, j + 1, "")
                k == jsonSkip(s, r.pos)
            IN IF ~r.ok \/ k >= Len(s) THEN [ok |-> FALSE, val |-> acc]
               ELSE IF Ch(s, k + 1) = "," THEN jsonElems(s, k + 1, Append(acc, r.val))
               ELSE IF Ch(s, k + 1) = "]"
               THEN [ok |-> jsonSkip(s, k + 1) >= Len(s), val |-> Append(acc, r.val)]
               ELSE [ok |-> FALSE, val |-> acc]

\* json.Unmarshal([]byte(s), &[]string): ok and the decoded slice
jsonUnmarshalStrings(s) ==
    LET i == jsonSkip(s, 0)
    IN IF i >= Len(s) \/ Ch(s, i + 1) # "[" THEN [ok |-> FALSE, val |-> <<>>]
       ELSE LET j == jsonSkip(s, i + 1)
            IN IF j < Len(s) /\ Ch(s, j + 1) = "]"
               THEN [ok |-> jsonSkip(s, j + 1) >= Len(s), val |-> <<>>]
               ELSE jsonElems(s, i + 1, <<>>)

RECURSIVE execFallback(_)
execFallback(parts) ==
    IF parts = <<>> THEN <<>>
    ELSE LET part == TrimSet(TrimSpace(parts[1]), {"\"", "'"})
         IN (IF part # "" THEN <<part>> ELSE <<>>) \o execFallback(Tail(parts))

parseExecForm(s0) ==
    LET s == TrimSpace(s0)
        j == jsonUnmarshalStrings(s)
    IN IF j.ok THEN j.val
       ELSE execFallback(Split(TrimSuffix(TrimPrefix(s, "["), "]"), ","))

\* parseKeyValuePairs: the map as a function from keys to values
RECURSIVE keyValuePairs(_, _)
keyValuePairs(parts, m) ==
    IF parts = <<>> THEN m
    ELSE LET part == parts[1]
         IN IF Contains(part, "=")
            THEN LET eqIdx == Index(part, "=")
                     key == TrimSpace(SubSeq(part, 1, eqIdx))
                     value == TrimSet(TrimSpace(SubSeq(part, eqIdx + 2, Len(part))), {"\"", "'"})
                 IN keyValuePairs(Tail(parts),
                        [k \in DOMAIN m \cup {key} |-> IF k = key THEN value ELSE m[k]])
            ELSE keyValuePairs(Tail(parts), m)

parseKeyValuePairs(s) == keyValuePairs(splitArgs(s), [k \in {} |-> ""])

(***************************************************************************)
(* Per-instruction parsers: ok and the instruction node, or the error      *)
(***************************************************************************)
\* the element of a one-element set
Only(S) == CHOOSE x \in S : TRUE

Ok(i) == [ok |-> TRUE, instr |-> i]

Err(m) == [ok |-> FALSE, err |-> m]

RECURSIVE fromPlatform(_, _, _)
fromPlatform(parts, idx, platform) ==
    IF idx < Len(parts) /\ HasPrefix(parts[idx + 1], "--platform")
    THEN IF Contains(parts[idx + 1], "=")
         THEN fromPlatform(parts, idx + 1, SplitN2(parts[idx + 1], "=")[2])
         ELSE IF idx + 1 < Len(parts)
         THEN fromPlatform(parts, idx + 2, parts[idx + 2])
         ELSE fromPlatform(parts, idx + 1, platform)
    ELSE [idx |-> idx, platform |-> platform]

RECURSIVE fromAlias(_, _)
fromAlias(parts, idx) ==
    IF idx >= Len(parts) THEN ""
    ELSE IF ToUpper(parts[idx + 1]) = "AS" /\ idx + 1 < Len(parts) THEN parts[idx + 2]
    ELSE fromAlias(parts, idx + 1)

parseFrom(line, rawText, args) ==
    IF args = "" THEN Err("FROM requires an image argument")
    ELSE LET parts == splitArgs(args)
             pf == fromPlatform(parts, 0, "")
         IN IF pf.idx >= Len(parts) THEN Err("FROM requires an image argument")
            ELSE LET ref0 == parts[pf.idx + 1]
                     hasDigest == Contains(ref0, "@")
                     imageRef == IF hasDigest THEN SplitN2(ref0, "@")[1] ELSE ref0
                     digest == IF hasDigest THEN SplitN2(ref0, "@")[2] ELSE ""
                     hasTag == Contains(imageRef, ":")
                 IN Ok([type |-> "FROM", line |-> line, raw |-> rawText,
                        image |-> IF hasTag THEN SplitN2(imageRef, ":")[1] ELSE imageRef,
                        tag |-> IF hasTag THEN SplitN2(imageRef, ":")[2] ELSE "",
                        digest |-> digest,
                        alias |-> fromAlias(parts, pf.idx + 1),
                        platform |-> pf.platform])

parseRun(line, rawText, args) ==
    Ok([type |-> "RUN", line |-> line, raw |-> rawText, command |-> args,
        shell |-> ~isExecForm(args)])

RECURSIVE copyFlags(_, _, _, _)
copyFlags(parts, idx, from, chown) ==
    IF idx >= Len(parts) THEN [idx |-> idx, from |-> from, chown |-> chown]
    ELSE LET p == parts[idx + 1]
         IN IF HasPrefix(p, "--from=")
            THEN copyFlags(parts, idx + 1, TrimPrefix(p, "--from="), chown)
            ELSE IF HasPrefix(p, "--chown=")
            THEN copyFlags(parts, idx + 1, from, TrimPrefix(p, "--chown="))
            ELSE IF HasPrefix(p, "--") THEN copyFlags(parts, idx + 1, from, chown)
            ELSE [idx |-> idx, from |-> from, chown |-> chown]

parseCopy(line, rawText, args) ==
    IF args = "" THEN Err("COPY requires source and destination arguments")
    ELSE LET parts == splitArgs(args)
             f == copyFlags(parts, 0, "", "")
             sources == SubSeq(parts, f.idx + 1, Len(parts))
         IN IF Len(sources) < 2 THEN Err("COPY requires at least source and destination")
            ELSE Ok([type |-> "COPY", line |-> line, raw |-> rawText,
                     sources |-> SubSeq(sources, 1, Len(sources) - 1),
                     dest |-> sources[Len(sources)],
                     from |-> f.from, chown |-> f.chown])

RECURSIVE addFlags(_, _, _)
addFlags(parts, idx, chown) ==
    IF idx >= Len(parts) THEN [idx |-> idx, chown |-> chown]
    ELSE LET p == parts[idx + 1]
         IN IF HasPrefix(p, "--chown=")
            THEN addFlags(parts, idx + 1, TrimPrefix(p, "--chown="))
            ELSE IF HasPrefix(p, "--") THEN addFlags(parts, idx + 1, chown)
            ELSE [idx |-> idx, chown |-> chown]

parseAdd(line, rawText, args) ==
    IF args = "" THEN Err("ADD requires source and destination arguments")
    ELSE LET parts == splitArgs(args)
             f == addFlags(parts, 0, "")
             sources == SubSeq(parts, f.idx + 1, Len(parts))
         IN IF Len(sources) < 2 THEN Err("ADD requires at least source and destination")
            ELSE Ok([type |-> "ADD", line |-> line, raw |-> rawText,
                     sources |-> SubSeq(sources, 1, Len(sources) - 1),
                     dest |-> sources[Len(sources)],
                     chown |-> f.chown])

parseEnv(line, rawText, args) ==
    IF args = "" THEN Err("ENV requires key and value")
    ELSE IF Contains(args, "=")
    THEN LET eqIdx == Index(args, "=")
         IN Ok([type |-> "ENV", line |-> line, raw |-> rawText,
                key |-> TrimSpace(SubSeq(args, 1, eqIdx)),
                value |-> TrimSpace(SubSeq(args, eqIdx + 2, Len(args)))])
    ELSE LET parts == splitArgs(args)
         IN Ok([type |-> "ENV", line |-> line, raw |-> rawText,
                key |-> IF Len(parts) >= 1 THEN parts[1] ELSE "",
                value |-> IF Len(parts) >= 2 THEN Join(Tail(parts), " ") ELSE ""])

parseArg(line, rawText, args) ==
    IF args = "" THEN Err("ARG requires a name")
    ELSE IF Contains(args, "=")
    THEN LET eqIdx == Index(args, "=")
         IN Ok([type |-> "ARG", line |-> line, raw |-> rawText,
                name |-> TrimSpace(SubSeq(args, 1, eqIdx)),
                default |-> TrimSpace(SubSeq(args, eqIdx + 2, Len(args)))])
    ELSE Ok([type |-> "ARG", line |-> line, raw |-> rawText,
             name |-> TrimSpace(args), default |-> ""])

parseExpose(line, rawText, args) ==
    Ok([type |-> "EXPOSE", line |-> line, raw |-> rawText, ports |-> splitArgs(args)])

parseWorkdir(line, rawText, args) ==
    IF args = "" THEN Err("WORKDIR requires a path")
    ELSE Ok([type |-> "WORKDIR", line |-> line, raw |-> rawText, path |-> args])

parseUser(line, rawText, args) ==
    IF args = "" THEN Err("USER requires a user")
    ELSE IF Contains(args, ":")
    THEN Ok([type |-> "USER", line |-> line, raw |-> rawText,
             user |-> SplitN2(args, ":")[1], group |-> SplitN2(args, ":")[2]])
    ELSE Ok([type |-> "USER", line |-> line, raw |-> rawText, user |-> args, group |-> ""])

parseLabel(line, rawText, args) ==
    Ok([type |-> "LABEL", line |-> line, raw |-> rawText, labels |-> parseKeyValuePairs(args)])

parseVolume(line, rawText, args) ==
    LET j == jsonUnmarshalStrings(args)
    IN IF HasPrefix(TrimSpace(args), "[") /\ j.ok
       THEN Ok([type |-> "VOLUME", line |-> line, raw |-> rawText, paths |-> j.val])
       ELSE Ok([type |-> "VOLUME", line |-> line, raw |-> rawText, paths |-> splitArgs(args)])

parseCmd(line, rawText, args) ==
    IF isExecForm(args)
    THEN Ok([type |-> "CMD", line |-> line, raw |-> rawText, shell |-> FALSE,
             command |-> parseExecForm(args)])
    ELSE Ok([type |-> "CMD", line |-> line, raw |-> rawText, shell |-> TRUE,
             command |-> <<args>>])

parseEntrypoint(line, rawText, args) ==
    IF isExecForm(args)
    THEN Ok([type |-> "ENTRYPOINT", line |-> line, raw |-> rawText, shell |-> FALSE,
             command |-> parseExecForm(args)])
    ELSE Ok([type |-> "ENTRYPOINT", line |-> line, raw |-> rawText, shell |-> TRUE,
             command |-> <<args>>])

RECURSIVE healthcheckLoop(_, _, _)
healthcheckLoop(parts, idx, h) ==
    IF idx >= Len(parts) THEN h
    ELSE LET part == parts[idx + 1]
         IN IF HasPrefix(part, "--interval=")
            THEN healthcheckLoop(parts, idx + 1, [h EXCEPT !.interval = TrimPrefix(part, "--interval=")])
            ELSE IF HasPrefix(part, "--timeout=")
            THEN healthcheckLoop(parts, idx + 1, [h EXCEPT !.timeout = TrimPrefix(part, "--timeout=")])
            ELSE IF HasPrefix(part, "--retries=")
            THEN healthcheckLoop(parts, idx + 1, [h EXCEPT !.retries = TrimPrefix(part, "--retries=")])
            ELSE IF HasPrefix(part, "--start-period=")
            THEN healthcheckLoop(parts, idx + 1, [h EXCEPT !.start = TrimPrefix(part, "--start-period=")])
            ELSE IF ToUpper(part) = "CMD"
            THEN LET remaining == Join(SubSeq(parts, idx + 2, Len(parts)), " ")
                 IN [h EXCEPT !.command = IF isExecForm(remaining) THEN parseExecForm(remaining)
                                          ELSE <<remaining>>]
            ELSE healthcheckLoop(parts, idx + 1, h)

parseHealthcheck(line, rawText, args0) ==
    LET args == TrimSpace(args0)
        h0 == [type |-> "HEALTHCHECK", line |-> line, raw |-> rawText, none |-> FALSE,
               interval |-> "", timeout |-> "", retries |-> "", start |-> "",
               command |-> <<>>]
    IN IF ToUpper(args) = "NONE" THEN Ok([h0 EXCEPT !.none = TRUE])
       ELSE Ok(healthcheckLoop(splitArgs(args), 0, h0))

parseShell(line, rawText, args) ==
    Ok([type |-> "SHELL", line |-> line, raw |-> rawText,
        shellv |-> IF isExecForm(args) THEN parseExecForm(args) ELSE splitArgs(args)])

parseStopsignal(line, rawText, args) ==
    IF args = "" THEN Err("STOPSIGNAL requires a signal")
    ELSE Ok([type |-> "STOPSIGNAL", line |-> line, raw |-> rawText, signal |-> args])

parseMaintainer(line, rawText, args) ==
    Ok([type |-> "LABEL", line |-> line, raw |-> rawText,
        labels |-> [k \in {"maintainer"} |-> args]])

\* the per-instruction parsers ONBUILD may wrap
parseInner(instrType, line, rawText, args) ==
    CASE instrType = "RUN" -> parseRun(line, rawText, args)
      [] instrType = "COPY" -> parseCopy(line, rawText, args)
      [] instrType = "ADD" -> parseAdd(line, rawText, args)
      [] instrType = "ENV" -> parseEnv(line, rawText, args)
      [] instrType = "ARG" -> parseArg(line, rawText, args)
      [] instrType = "EXPOSE" -> parseExpose(line, rawText, args)
      [] instrType = "WORKDIR" -> parseWorkdir(line, rawText, args)
      [] instrType = "USER" -> parseUser(line, rawText, args)
      [] instrType = "LABEL" -> parseLabel(line, rawText, args)
      [] instrType = "VOLUME" -> parseVolume(line, rawText, args)
      [] instrType = "CMD" -> parseCmd(line, rawText, args)
      [] instrType = "ENTRYPOINT" -> parseEntrypoint(line, rawText, args)
      [] instrType = "HEALTHCHECK" -> parseHealthcheck(line, rawText, args)
      [] instrType = "SHELL" -> parseShell(line, rawText, args)
      [] instrType = "STOPSIGNAL" -> parseStopsignal(line, rawText, args)
      [] OTHER -> Err("invalid ONBUILD instruction: " \o instrType)

parseOnbuild(line, rawText, args) ==
    IF args = "" THEN Err("ONBUILD requires an instruction")
    ELSE LET parts == splitArgs(args)
         IN IF Len(parts) = 0 THEN Err("ONBUILD requires an instruction")
            ELSE LET instrType == ToUpper(parts[1])
                     instrArgs == IF Len(parts) > 1 THEN Join(Tail(parts), " ") ELSE ""
                     innerRaw == IF instrArgs # "" THEN instrType \o " " \o instrArgs ELSE instrType
                     inner == parseInner(instrType, line, innerRaw, instrArgs)
                 IN IF ~inner.ok THEN inner
                    ELSE Ok([type |-> "ONBUILD", line |-> line, raw |-> rawText,
                             instruction |-> inner.instr])

\* the dispatch of parseInstruction on the instruction keyword
parseDispatch(instrType, line, rawText, args) ==
    CASE instrType = "FROM" -> parseFrom(line, rawText, args)
      [] instrType = "ONBUILD" -> parseOnbuild(line, rawText, args)
      [] instrType = "MAINTAINER" -> parseMaintainer(line, rawText, args)
      [] OTHER -> parseInner(instrType, line, rawText, args)

\* parseInstruction: reads the argument token, then dispatches.  The result
\* carries the lexer and the peeked token after the read.
parseWithArgument(cur, argToken) ==
    LET args == IF argToken.type = TokenType.Argument THEN argToken.value ELSE ""
        rawText == IF args # "" THEN cur.value \o " " \o args ELSE cur.value
    IN IF argToken.type \notin {TokenType.Argument, TokenType.Newline, TokenType.EOF}
       THEN Err("expected argument after " \o cur.value)
       ELSE parseDispatch(cur.value, cur.line, rawText, args)

parseInstruction(inp, L, peeked, cur) ==
    Only({[res |-> parseWithArgument(cur, n.tok), lx |-> n.lx, peeked |-> n.peeked] :
            n \in {NextToken(inp, L, peeked)}})

(***************************************************************************)
(* Parser                                                                  *)
(***************************************************************************)
Nil == [type |-> "nil"]

NoError == [type |-> "nil"]

ParseError(l, c, m) == [line |-> l, column |-> c, message |-> m]

EmptyIgnores == [k \in {} |-> <<>>]

IsRegexSpace(c) == c \in {" ", "\t", "\n", "\r", "\f"}

RECURSIVE skipRegexSpace(_, _)
skipRegexSpace(s, i) ==
    IF i < Len(s) /\ IsRegexSpace(Ch(s, i + 1)) THEN skipRegexSpace(s, i + 1) ELSE i

\* (?i)#\s*docker-lint\s+ignore:\s*(.+) matched at 0-based position i: whether
\* it matches there and the capture group
ignoreMatchAt(s, i) ==
    LET a == skipRegexSpace(s, i + 1)
        b == a + Len("docker-lint")
        c == skipRegexSpace(s, b)
        d == c + Len("ignore:")
        e == skipRegexSpace(s, d)
        head == /\ Ch(s, i + 1) = "#"
                /\ b <= Len(s)
                /\ ToLower(SubSeq(s, a + 1, b)) = "docker-lint"
                /\ c > b
                /\ d <= Len(s)
                /\ ToLower(SubSeq(s, c + 1, d)) = "ignore:"
    IN IF ~head THEN [ok |-> FALSE, cap |-> ""]
       ELSE IF e < Len(s) THEN [ok |-> TRUE, cap |-> SubSeq(s, e + 1, Len(s))]
       ELSE IF e > d THEN [ok |-> TRUE, cap |-> SubSeq(s, e, e)]
       ELSE [ok |-> FALSE, cap |-> ""]

RECURSIVE trimmedNonEmpty(_)
trimmedNonEmpty(parts) ==
    IF parts = <<>> THEN <<>>
    ELSE (IF TrimSpace(parts[1]) # "" THEN <<TrimSpace(parts[1])>> ELSE <<>>)
         \o trimmedNonEmpty(Tail(parts))

\* the rule IDs an inline ignore comment names (empty when it is not one);
\* regexp.FindStringSubmatch gives the leftmost match
inlineIgnoreIDs(comment) ==
    LET hits == {i \in 0..(Len(comment) - 1) : ignoreMatchAt(comment, i).ok}
        m == IF hits = {} THEN [ok |-> FALSE, cap |-> ""]
             ELSE ignoreMatchAt(comment, CHOOSE i \in hits : \A j \in hits : i <= j)
    IN IF ~m.ok THEN <<>> ELSE trimmedNonEmpty(Split(m.cap, ","))

\* the directive applied to the line after the next
ignoreTargetLineSkipsOne(line) == line + 2

\* the line an inline ignore comment on the given line applies to
ignoreTargetLine(line) == line + 1

\* parseInlineIgnore: p.inlineIgnores after the call
parseInlineIgnore(ignores, comment, line) ==
    LET ruleIDs == inlineIgnoreIDs(comment)
        target == ignoreTargetLine(line)
    IN IF Len(ruleIDs) = 0 THEN ignores
       ELSE [k \in DOMAIN ignores \cup {target} |->
               IF k = target
               THEN (IF k \in DOMAIN ignores THEN ignores[k] ELSE <<>>) \o ruleIDs
               ELSE ignores[k]]

\* Parse returning the error recorded last
parseReturnLastError(df, stage, ignores, errs) ==
    [df |-> [df EXCEPT !.stages = IF stage # Nil THEN Append(df.stages, stage) ELSE df.stages,
                       !.inlineIgnores = ignores],
     err |-> IF Len(errs) > 0 THEN errs[Len(errs)] ELSE NoError]

\* what Parse returns at End: the tree with the open stage closed and the
\* inline ignores attached, and the error
parseReturn(df, stage, ignores, errs) ==
    [df |-> [df EXCEPT !.stages = IF stage # Nil THEN Append(df.stages, stage) ELSE df.stages,
                       !.inlineIgnores = ignores],
     err |-> IF Len(errs) > 0 THEN errs[1] ELSE NoError]

(***************************************************************************)
(* Findings and the regular expressions of the rules.  A pattern is a      *)
(* sequence of elements; RxEnds gives the positions at which a match that  *)
(* starts at one of the positions P can end.                               *)
(***************************************************************************)
SeverityInfo == 0

SeverityWarning == 1

SeverityError == 2

Finding(id, sev, line, col, msg, sug) ==
    [ruleID |-> id, severity |-> sev, line |-> line, column |-> col,
     message |-> msg, suggestion |-> sug]

RECURSIVE Flatten(_)
Flatten(ss) == IF ss = <<>> THEN <<>> ELSE Head(ss) \o Flatten(Tail(ss))

Lit(s) == [k |-> "lit", s |-> s]

Alt(S) == [k |-> "alt", alts |-> S]

Opt(S) == [k |-> "opt", chars |-> S]

Spaces == [k |-> "spaces"]

NotNewlines == [k |-> "notnl"]

RxStep(el, s, P) ==
    LET RxLit(t) ==
            {p + Len(t) : p \in {q \in P : q + Len(t) <= Len(s) /\ SubSeq(s, q + 1, q + Len(t)) = t}}
    IN CASE el.k = "lit" -> RxLit(el.s)
         [] el.k = "alt" -> UNION {RxLit(t) : t \in el.alts}
         [] el.k = "opt" -> P \cup {p + 1 : p \in {q \in P : q < Len(s) /\ Ch(s, q + 1) \in el.chars}}
         [] el.k = "spaces" ->
               UNION {{q \in (p + 1)..Len(s) : \A i \in (p + 1)..q : IsRegexSpace(Ch(s, i))} : p \in P}
         [] el.k = "notnl" ->
               UNION {{q \in p..Len(s) : \A i \in (p + 1)..q : Ch(s, i) # "\n"} : p \in P}

RECURSIVE RxEnds(_, _, _)
RxEnds(pat, s, P) ==
    IF pat = <<>> \/ P = {} THEN P ELSE RxEnds(Tail(pat), s, RxStep(Head(pat), s, P))

\* regexp.MatchString for an unanchored pattern
MatchString(pat, s) == RxEnds(pat, s, 0..Len(s)) # {}

aptGetInstallPattern == <<Lit("apt-get"), Spaces, Alt({"install", "upgrade"})>>

yumInstallPattern == <<Alt({"yum", "dnf"}), Spaces, Lit("install")>>

apkAddPattern == <<Lit("apk"), Spaces, Alt({"add", "update"})>>

pipInstallPattern == <<Lit("pip"), Opt({"3"}), Spaces, Lit("install")>>

MatchAny(pats, s) == \E pat \in pats : MatchString(pat, s)

\* the rule ID constants
RuleID ==
    [MissingTag |-> "DL3006",
     LatestTag |-> "DL3007",
     LargeBaseImage |-> "DL3008",
     CacheNotCleaned |-> "DL3009",
     ConsecutiveRun |-> "DL3010",
     SuboptimalOrdering |-> "DL3011",
     UpdateWithoutInstall |-> "DL3012",
     MultipleCMD |-> "DL3001",
     MultipleEntrypoint |-> "DL3002",
     RelativeWorkdir |-> "DL3003",
     SecretInEnv |-> "DL4000",
     SecretInArg |-> "DL4001",
     NoUser |-> "DL4002",
     AddWithURL |-> "DL4003",
     AddOverCopy |-> "DL4004",
     MissingHealthcheck |-> "DL5000",
     WildcardCopy |-> "DL5001"]

(***************************************************************************)
(* Layer rules                                                             *)
(***************************************************************************)
CacheNotCleanedCheck(df) ==
    LET aptGetCleanPatterns ==
            {<<Lit("apt-get"), Spaces, Lit("clean")>>,
             <<Lit("rm"), Spaces, Lit("-r"), Opt({"f"}), Spaces, Lit("/var/lib/apt/lists")>>}
        yumCleanPattern == <<Alt({"yum", "dnf"}), Spaces, Lit("clean"), Spaces, Lit("all")>>
        apkNoCachePatterns ==
            {<<Lit("apk"), Spaces, Lit("add"), Spaces, NotNewlines, Lit("--no-cache")>>,
             <<Lit("rm"), Spaces, Lit("-r"), Opt({"f"}), Spaces, Lit("/var/cache/apk")>>}
        pipNoCachePattern ==
            <<Lit("pip"), Opt({"3"}), Spaces, Lit("install"), Spaces, NotNewlines, Lit("--no-cache-dir")>>
        cacheNotCleaned(run) ==
            LET cmd == run.command
                F(msg, sug) == <<Finding(RuleID.CacheNotCleaned, SeverityWarning, run.line, 1, msg, sug)>>
            IN IF MatchString(aptGetInstallPattern, cmd) /\ ~MatchAny(aptGetCleanPatterns, cmd)
               THEN F("apt-get install without cache cleanup increases image size",
                      "Add 'apt-get clean && rm -rf /var/lib/apt/lists/*' in the same RUN instruction")
               ELSE IF MatchString(yumInstallPattern, cmd) /\ ~MatchString(yumCleanPattern, cmd)
               THEN F("yum/dnf install without cache cleanup increases image size",
                      "Add 'yum clean all' or 'dnf clean all' in the same RUN instruction")
               ELSE IF MatchString(apkAddPattern, cmd) /\ ~MatchAny(apkNoCachePatterns, cmd)
               THEN F("apk add without --no-cache increases image size",
                      "Use 'apk add --no-cache' or add 'rm -rf /var/cache/apk/*'")
               ELSE IF MatchString(pipInstallPattern, cmd) /\ ~MatchString(pipNoCachePattern, cmd)
               THEN F("pip install without --no-cache-dir increases image size",
                      "Use 'pip install --no-cache-dir' to avoid caching packages")
               ELSE <<>>
    IN Flatten([i \in DOMAIN df.instructions |->
                  IF df.instructions[i].type = "RUN" THEN cacheNotCleaned(df.instructions[i])
                  ELSE <<>>])

RECURSIVE intToString(_)
intToString(n) ==
    IF n = 0 THEN "0"
    ELSE IF n < 0 THEN "-" \o intToString(-n)
    ELSE IF n < 10 THEN Ch("0123456789", n + 1)
    ELSE intToString(n \div 10) \o Ch("0123456789", (n % 10) + 1)

\* the loop of ConsecutiveRunRule.Check from instruction i on, with the line
\* of the first RUN of the open sequence and its length
RECURSIVE consecutiveRunLoop(_, _, _, _)
consecutiveRunLoop(instrs, i, firstLine, count) ==
    LET formatConsecutiveRunMessage(n) ==
            "Found " \o intToString(n) \o " consecutive RUN instructions that could be combined"
        \* the finding for the sequence that ends here, when it has two RUNs or more
        consecutiveRunFinding ==
            IF count >= 2
            THEN <<Finding(RuleID.ConsecutiveRun, SeverityWarning, firstLine, 1,
                           formatConsecutiveRunMessage(count),
                           "Combine RUN instructions using '&&' to reduce layers")>>
            ELSE <<>>
    IN IF i > Len(instrs) THEN consecutiveRunFinding
       ELSE IF instrs[i].type = "RUN"
       THEN consecutiveRunLoop(instrs, i + 1, IF count = 0 THEN instrs[i].line ELSE firstLine,
                               count + 1)
       ELSE consecutiveRunFinding \o consecutiveRunLoop(instrs, i + 1, 0, 0)

\* ConsecutiveRunRule.Check without the check for trailing consecutive RUNs
\* after the loop
ConsecutiveRunCheckNoFinalFlush(df) ==
    LET n == Len(df.instructions)
        found == consecutiveRunLoop(df.instructions, 1, 0, 0)
    IN IF n >= 2 /\ df.instructions[n].type = "RUN" /\ df.instructions[n - 1].type = "RUN"
       THEN SubSeq(found, 1, Len(found) - 1)
       ELSE found

ConsecutiveRunCheck(df) == consecutiveRunLoop(df.instructions, 1, 0, 0)

isPackageInstallCommand(cmd) ==
    \/ MatchString(aptGetInstallPattern, cmd)
    \/ MatchString(yumInstallPattern, cmd)
    \/ MatchString(apkAddPattern, cmd)
    \/ MatchString(pipInstallPattern, cmd)
    \/ Contains(cmd, "npm install")
    \/ Contains(cmd, "yarn install")
    \/ Contains(cmd, "go mod download")

isPackageFile(dest) ==
    LET packageFiles ==
            {"requirements.txt", "package.json", "package-lock.json", "yarn.lock", "go.mod",
             "go.sum", "Gemfile", "Gemfile.lock", "Cargo.toml", "Cargo.lock", "pom.xml",
             "build.gradle", "composer.json", "composer.lock"}
    IN \E pf \in packageFiles : HasSuffix(ToLower(dest), pf) \/ Contains(ToLower(dest), pf)

checkStage(stage) ==
    LET \* the COPY (without --from) and ADD instructions among the first n
        copiesBefore(instrs, n) ==
            SelectSeq(SubSeq(instrs, 1, n),
                      LAMBDA v : (v.type = "COPY" /\ v.from = "") \/ v.type = "ADD")
        suboptimalAt(instrs, i) ==
            IF /\ instrs[i].type = "RUN"
               /\ isPackageInstallCommand(instrs[i].command)
               /\ Len(copiesBefore(instrs, i - 1)) > 0
               /\ \E j \in (i + 1)..Len(instrs) : instrs[j].type \in {"COPY", "ADD"}
            THEN LET cps == SelectSeq(copiesBefore(instrs, i - 1), LAMBDA cp : ~isPackageFile(cp.dest))
                 IN [k \in DOMAIN cps |->
                       Finding(RuleID.SuboptimalOrdering, SeverityWarning, cps[k].line, 1,
                               "COPY/ADD before package installation may reduce cache efficiency",
                               "Move COPY/ADD after RUN instructions that don't depend on copied files")]
            ELSE <<>>
    IN Flatten([i \in DOMAIN stage.instructions |-> suboptimalAt(stage.instructions, i)])

SuboptimalOrderingCheck(df) == Flatten([s \in DOMAIN df.stages |-> checkStage(df.stages[s])])

UpdateWithoutInstallCheck(df) ==
    LET aptGetUpdatePattern == <<Lit("apt-get"), Spaces, Lit("update")>>
        yumUpdatePattern == <<Alt({"yum", "dnf"}), Spaces, Alt({"update", "upgrade"})>>
        updateWithoutInstall(run) ==
            LET cmd == run.command
            IN IF MatchString(aptGetUpdatePattern, cmd) /\ ~MatchString(aptGetInstallPattern, cmd)
               THEN <<Finding(RuleID.UpdateWithoutInstall, SeverityWarning, run.line, 1,
                              "apt-get update without install in same RUN instruction",
                              "Combine 'apt-get update' with 'apt-get install' in the same RUN instruction")>>
               ELSE IF /\ MatchString(yumUpdatePattern, cmd)
                       /\ ~MatchString(yumInstallPattern, cmd)
                       /\ Contains(cmd, "makecache")
               THEN <<Finding(RuleID.UpdateWithoutInstall, SeverityWarning, run.line, 1,
                              "yum/dnf makecache without install in same RUN instruction",
                              "Combine cache refresh with install in the same RUN instruction")>>
               ELSE <<>>
    IN Flatten([i \in DOMAIN df.instructions |->
                  IF df.instructions[i].type = "RUN" THEN updateWithoutInstall(df.instructions[i])
                  ELSE <<>>])

(***************************************************************************)
(* Base image rules                                                        *)
(***************************************************************************)
largeBaseImages ==
    [n \in {"ubuntu", "debian", "centos", "fedora", "amazonlinux", "oraclelinux", "python",
            "node", "ruby", "golang", "openjdk", "java", "php", "perl", "rust"} |->
       CASE n = "ubuntu" -> "ubuntu:*-slim or alpine"
         [] n = "debian" -> "debian:*-slim or alpine"
         [] n \in {"centos", "fedora", "amazonlinux", "oraclelinux"} -> "alpine or distroless"
         [] n = "python" -> "python:*-slim or python:*-alpine"
         [] n = "node" -> "node:*-slim or node:*-alpine"
         [] n = "ruby" -> "ruby:*-slim or ruby:*-alpine"
         [] n = "golang" -> "golang:*-alpine or distroless"
         [] n = "openjdk" -> "openjdk:*-slim or eclipse-temurin:*-alpine"
         [] n = "java" -> "eclipse-temurin:*-alpine or distroless"
         [] n = "php" -> "php:*-alpine"
         [] n = "perl" -> "perl:*-slim"
         [] n = "rust" -> "rust:*-slim or rust:*-alpine"]

MissingTagCheck(df) ==
    LET missingTag(from) ==
            IF ToLower(from.image) # "scratch" /\ from.digest = "" /\ from.tag = ""
            THEN <<Finding(RuleID.MissingTag, SeverityWarning, from.line, 1,
                           "Image '" \o from.image \o "' does not have an explicit tag, defaulting to 'latest'",
                           "Use explicit tag like '" \o from.image \o ":<version>' for reproducible builds")>>
            ELSE <<>>
    IN Flatten([i \in DOMAIN df.instructions |->
                  IF df.instructions[i].type = "FROM" THEN missingTag(df.instructions[i])
                  ELSE <<>>])

LatestTagCheck(df) ==
    LET latestTag(from) ==
            IF ToLower(from.image) # "scratch" /\ from.digest = "" /\ ToLower(from.tag) = "latest"
            THEN <<Finding(RuleID.LatestTag, SeverityWarning, from.line, 1,
                           "Using 'latest' tag for image '" \o from.image \o "' is not recommended",
                           "Pin to a specific version like '" \o from.image \o ":<version>' for reproducible builds")>>
            ELSE <<>>
    IN Flatten([i \in DOMAIN df.instructions |->
                  IF df.instructions[i].type = "FROM" THEN latestTag(df.instructions[i])
                  ELSE <<>>])

extractBaseImageName(image) ==
    LET parts == Split(image, "/") IN ToLower(parts[Len(parts)])

isSlimVariant(tag) ==
    LET slimIndicators == {"slim", "alpine", "minimal", "distroless", "scratch", "tiny", "micro"}
    IN IF tag = "" THEN FALSE
       ELSE \E indicator \in slimIndicators : Contains(ToLower(tag), indicator)

LargeBaseImageCheck(df) ==
    LET largeBaseImage(from) ==
            LET imageName == extractBaseImageName(from.image)
            IN IF imageName \in DOMAIN largeBaseImages /\ ~isSlimVariant(ToLower(from.tag))
               THEN <<Finding(RuleID.LargeBaseImage, SeverityWarning, from.line, 1,
                              "Image '" \o from.image \o "' is a large base image",
                              "Consider using " \o largeBaseImages[imageName] \o " for smaller image size")>>
               ELSE <<>>
    IN Flatten([i \in DOMAIN df.instructions |->
                  IF df.instructions[i].type = "FROM" THEN largeBaseImage(df.instructions[i])
                  ELSE <<>>])

(***************************************************************************)
(* Security rules                                                          *)
(***************************************************************************)
\* the (?i) patterns, matched against the lower-cased key
secretPatterns ==
    LET Sep == Opt({"_", "-"})
    IN {<<Lit("password")>>, <<Lit("passwd")>>, <<Lit("secret")>>, <<Lit("token")>>,
        <<Lit("api"), Sep, Lit("key")>>, <<Lit("apikey")>>,
        <<Lit("private"), Sep, Lit("key")>>, <<Lit("privatekey")>>,
        <<Lit("access"), Sep, Lit("key")>>, <<Lit("accesskey")>>,
        <<Lit("auth"), Sep, Lit("token")>>, <<Lit("credential"), Opt({"s"})>>,
        <<Lit("ssh"), Sep, Lit("key")>>, <<Lit("encryption"), Sep, Lit("key")>>}

isSecretKey(key) == MatchAny(secretPatterns, ToLower(key))

\* ^https?://
urlPattern(s) == RxEnds(<<Lit("http"), Opt({"s"}), Lit("://")>>, s, {0}) # {}

isArchiveFile(filename) ==
    LET archiveExtensions ==
            {".tar", ".tar.gz", ".tgz", ".tar.bz2", ".tbz2", ".tar.xz", ".txz", ".zip", ".gz",
             ".bz2", ".xz"}
    IN \E ext \in archiveExtensions : HasSuffix(ToLower(filename), ext)

\* the message of DL4000 with the value of the variable in it
secretInEnvMessageWithValue(env) ==
    "ENV instruction contains key '" \o env.key \o "' with value '" \o env.value \o "'"

secretInEnvMessage(env) ==
    "ENV instruction contains key '" \o env.key \o "' which may contain a secret"

SecretInEnvCheck(df) ==
    LET secretInEnv(env) ==
            IF isSecretKey(env.key)
            THEN <<Finding(RuleID.SecretInEnv, SeverityWarning, env.line, 1, secretInEnvMessage(env),
                           "Use Docker secrets, build-time secrets (--secret), or runtime environment variables instead")>>
            ELSE <<>>
    IN Flatten([i \in DOMAIN df.instructions |->
                  IF df.instructions[i].type = "ENV" THEN secretInEnv(df.instructions[i])
                  ELSE <<>>])

SecretInArgCheck(df) ==
    LET secretInArg(arg) ==
            IF isSecretKey(arg.name)
            THEN <<Finding(RuleID.SecretInArg, SeverityWarning, arg.line, 1,
                           "ARG instruction contains name '" \o arg.name \o "' which may contain a secret",
                           "Use Docker secrets or build-time secrets (--secret) instead of ARG for sensitive values")>>
            ELSE <<>>
    IN Flatten([i \in DOMAIN df.instructions |->
                  IF df.instructions[i].type = "ARG" THEN secretInArg(df.instructions[i])
                  ELSE <<>>])

\* NoUserRule.Check looking for a USER instruction in the whole file instead
\* of in each stage
NoUserCheckWholeFile(df) ==
    LET noUser(stage) ==
            LET n == Len(stage.instructions)
                lastInstrLine == IF n > 0 THEN stage.instructions[n].line ELSE 0
                line == IF lastInstrLine > 0 THEN lastInstrLine ELSE stage.fromInstr.line
                stageName == IF stage.name = "" THEN "stage " \o intToString(stage.index)
                             ELSE stage.name
            IN IF (\A i \in DOMAIN df.instructions : df.instructions[i].type # "USER")
                  /\ stage.fromInstr # Nil
               THEN <<Finding(RuleID.NoUser, SeverityWarning, line, 1,
                              "No USER instruction in " \o stageName \o "; container will run as root",
                              "Add 'USER <username>' instruction to run container as non-root user")>>
               ELSE <<>>
    IN Flatten([s \in DOMAIN df.stages |-> noUser(df.stages[s])])

NoUserCheck(df) ==
    LET noUser(stage) ==
            LET n == Len(stage.instructions)
                lastInstrLine == IF n > 0 THEN stage.instructions[n].line ELSE 0
                line == IF lastInstrLine > 0 THEN lastInstrLine ELSE stage.fromInstr.line
                stageName == IF stage.name = "" THEN "stage " \o intToString(stage.index)
                             ELSE stage.name
            IN IF (\A i \in DOMAIN stage.instructions : stage.instructions[i].type # "USER")
                  /\ stage.fromInstr # Nil
               THEN <<Finding(RuleID.NoUser, SeverityWarning, line, 1,
                              "No USER instruction in " \o stageName \o "; container will run as root",
                              "Add 'USER <username>' instruction to run container as non-root user")>>
               ELSE <<>>
    IN Flatten([s \in DOMAIN df.stages |-> noUser(df.stages[s])])

AddWithURLCheck(df) ==
    LET addWithURL(add) ==
            IF \E k \in DOMAIN add.sources : urlPattern(add.sources[k])
            THEN <<Finding(RuleID.AddWithURL, SeverityWarning, add.line, 1,
                           "ADD with URL source is not recommended",
                           "Use 'RUN curl -o <dest> <url>' or 'RUN wget -O <dest> <url>' for better caching and security")>>
            ELSE <<>>
    IN Flatten([i \in DOMAIN df.instructions |->
                  IF df.instructions[i].type = "ADD" THEN addWithURL(df.instructions[i])
                  ELSE <<>>])

AddOverCopyCheck(df) ==
    LET addOverCopy(add) ==
            IF \A k \in DOMAIN add.sources :
                  ~urlPattern(add.sources[k]) /\ ~isArchiveFile(add.sources[k])
            THEN <<Finding(RuleID.AddOverCopy, SeverityWarning, add.line, 1,
                           "ADD used where COPY would suffice",
                           "Use COPY instead of ADD for simple file copying; ADD should only be used for URL fetching or archive extraction")>>
            ELSE <<>>
    IN Flatten([i \in DOMAIN df.instructions |->
                  IF df.instructions[i].type = "ADD" THEN addOverCopy(df.instructions[i])
                  ELSE <<>>])

(***************************************************************************)
(* Best practice rules                                                     *)
(***************************************************************************)
\* all but the last instruction of the given type in a stage
allButLast(stage, type, id, msg, sug) ==
    LET is == SelectSeq(stage.instructions, LAMBDA v : v.type = type)
    IN [k \in 1..(Len(is) - 1) |-> Finding(id, SeverityWarning, is[k].line, 1, msg, sug)]

MultipleCMDCheck(df) ==
    Flatten([s \in DOMAIN df.stages |->
               allButLast(df.stages[s], "CMD", RuleID.MultipleCMD,
                          "Multiple CMD instructions found; only the last one will take effect",
                          "Remove duplicate CMD instructions and keep only the final one")])

MultipleEntrypointCheck(df) ==
    Flatten([s \in DOMAIN df.stages |->
               allButLast(df.stages[s], "ENTRYPOINT", RuleID.MultipleEntrypoint,
                          "Multiple ENTRYPOINT instructions found; only the last one will take effect",
                          "Remove duplicate ENTRYPOINT instructions and keep only the final one")])

isAbsolutePath(path) ==
    IF path = "" THEN FALSE
    ELSE \/ HasPrefix(path, "/")
         \/ (Len(path) >= 2 /\ Ch(path, 2) = ":")
         \/ HasPrefix(path, "$")

RelativeWorkdirCheck(df) ==
    LET relativeWorkdir(workdir) ==
            IF ~isAbsolutePath(workdir.path)
            THEN <<Finding(RuleID.RelativeWorkdir, SeverityWarning, workdir.line, 1,
                           "WORKDIR uses relative path '" \o workdir.path \o "'",
                           "Use an absolute path like '/" \o workdir.path \o "' for clarity")>>
            ELSE <<>>
    IN Flatten([i \in DOMAIN df.instructions |->
                  IF df.instructions[i].type = "WORKDIR" THEN relativeWorkdir(df.instructions[i])
                  ELSE <<>>])

\* MissingHealthcheckRule.Check without the test that the tree has a stage
MissingHealthcheckCheckWithoutStageTest(df) ==
    IF \A i \in DOMAIN df.instructions : df.instructions[i].type # "HEALTHCHECK"
    THEN LET line == IF Len(df.stages) = 0 THEN 1
                     ELSE LET lastStage == df.stages[Len(df.stages)]
                              n == Len(lastStage.instructions)
                          IN IF n > 0 THEN lastStage.instructions[n].line
                             ELSE IF lastStage.fromInstr # Nil THEN lastStage.fromInstr.line
                             ELSE 1
         IN <<Finding(RuleID.MissingHealthcheck, SeverityWarning, line, 1,
                      "No HEALTHCHECK instruction found",
                      "Add 'HEALTHCHECK CMD <command>' to enable container health monitoring")>>
    ELSE <<>>

\* MissingHealthcheckRule.Check reporting on the line it starts from
MissingHealthcheckCheckOnFirstLine(df) ==
    IF (\A i \in DOMAIN df.instructions : df.instructions[i].type # "HEALTHCHECK")
       /\ Len(df.stages) > 0
    THEN <<Finding(RuleID.MissingHealthcheck, SeverityWarning, 1, 1,
                   "No HEALTHCHECK instruction found",
                   "Add 'HEALTHCHECK CMD <command>' to enable container health monitoring")>>
    ELSE <<>>

MissingHealthcheckCheck(df) ==
    IF (\A i \in DOMAIN df.instructions : df.instructions[i].type # "HEALTHCHECK")
       /\ Len(df.stages) > 0
    THEN LET lastStage == df.stages[Len(df.stages)]
             n == Len(lastStage.instructions)
             line == IF n > 0 THEN lastStage.instructions[n].line
                     ELSE IF lastStage.fromInstr # Nil THEN lastStage.fromInstr.line
                     ELSE 1
         IN <<Finding(RuleID.MissingHealthcheck, SeverityWarning, line, 1,
                      "No HEALTHCHECK instruction found",
                      "Add 'HEALTHCHECK CMD <command>' to enable container health monitoring")>>
    ELSE <<>>

hasWildcard(sources) ==
    LET \* filepath.Base with the separator "/"
        Base(path) ==
            LET p == TrimRightSet(path, {"/"})
                parts == Split(p, "/")
            IN IF path = "" THEN "."
               ELSE IF p = "" THEN "/"
               ELSE parts[Len(parts)]
        wildcardChars == {"*", "?", "["}
    IN \E k \in DOMAIN sources : \E wc \in wildcardChars : Contains(Base(sources[k]), wc)

WildcardCopyCheck(df) ==
    LET wildcardCopy(v) ==
            IF (v.type = "ADD" \/ (v.type = "COPY" /\ v.from = "")) /\ hasWildcard(v.sources)
            THEN <<Finding(RuleID.WildcardCopy, SeverityInfo, v.line, 1,
                           v.type \o " uses wildcard pattern which may include unnecessary files",
                           "Consider using explicit file paths or a .dockerignore file to exclude unnecessary files")>>
            ELSE <<>>
    IN Flatten([i \in DOMAIN df.instructions |->
                  IF df.instructions[i].type \in {"COPY", "ADD"} THEN wildcardCopy(df.instructions[i])
                  ELSE <<>>])

(***************************************************************************)
(* Rule registry                                                           *)
(***************************************************************************)
AsciiCode ==
    LET \* the printable characters in the order of their codes
        Ascii ==
            " !\"#$%&'()*+,-./0123456789:;<=>?@ABCDEFGHIJKLMNOPQRSTUVWXYZ[\\]^_abcdefghijklmnopqrstuvwxyz{|}~"
    IN [c \in {Ch(Ascii, i) : i \in 1..Len(Ascii)} |-> CHOOSE i \in 1..Len(Ascii) : Ch(Ascii, i) = c]

\* Go's < on strings: byte-wise lexicographic order
RECURSIVE StringLess(_, _)
StringLess(a, b) ==
    IF b = "" THEN FALSE
    ELSE IF a = "" THEN TRUE
    ELSE IF Ch(a, 1) # Ch(b, 1) THEN AsciiCode[Ch(a, 1)] < AsciiCode[Ch(b, 1)]
    ELSE StringLess(SubSeq(a, 2, Len(a)), SubSeq(b, 2, Len(b)))

\* sort.Strings: x moved down the sorted sequence s while it is less
RECURSIVE insertString(_, _)
insertString(s, x) ==
    IF s # <<>> /\ StringLess(x, s[Len(s)])
    THEN Append(insertString(SubSeq(s, 1, Len(s) - 1), x), s[Len(s)])
    ELSE Append(s, x)

RECURSIVE sortStrings(_)
sortStrings(s) ==
    IF s = <<>> THEN <<>>
    ELSE insertString(sortStrings(SubSeq(s, 1, Len(s) - 1)), s[Len(s)])

\* the rules in the order their init functions register them
registered ==
    <<RuleID.MissingTag, RuleID.LatestTag, RuleID.LargeBaseImage,
      RuleID.MultipleCMD, RuleID.MultipleEntrypoint, RuleID.RelativeWorkdir,
      RuleID.MissingHealthcheck, RuleID.WildcardCopy,
      RuleID.CacheNotCleaned, RuleID.ConsecutiveRun, RuleID.SuboptimalOrdering,
      RuleID.UpdateWithoutInstall,
      RuleID.SecretInEnv, RuleID.SecretInArg, RuleID.NoUser, RuleID.AddWithURL, RuleID.AddOverCopy>>

\* DefaultRegistry once the init functions have run, and no Analyze in progress
NoAnalyses ==
    /\ registry = {registered[k] : k \in DOMAIN registered}
    /\ analyses = <<>>

\* the orders in which ranging over the map may yield the keys
MapOrders ==
    LET Rotate(s, k) == [i \in DOMAIN s |-> s[((i - 1 + k) % Len(s)) + 1]]
        Reverse(s) == [i \in DOMAIN s |-> s[Len(s) + 1 - i]]
    IN {Rotate(registered, k) : k \in 0..MaxMapSeed}
           \cup {Reverse(Rotate(registered, k)) : k \in 0..MaxMapSeed}

\* what All returns for each order of ranging over the map: the rule IDs
\* collected in that order, then sorted
AllSorted == [order \in MapOrders |-> sortStrings(order)]

\* RuleRegistry.All
All(order) == AllSorted[order]

\* rule.Check for the rule with the given ID
Check(id, df) ==
    CASE id = RuleID.MissingTag -> MissingTagCheck(df)
      [] id = RuleID.LatestTag -> LatestTagCheck(df)
      [] id = RuleID.LargeBaseImage -> LargeBaseImageCheck(df)
      [] id = RuleID.CacheNotCleaned -> CacheNotCleanedCheck(df)
      [] id = RuleID.ConsecutiveRun -> ConsecutiveRunCheck(df)
      [] id = RuleID.SuboptimalOrdering -> SuboptimalOrderingCheck(df)
      [] id = RuleID.UpdateWithoutInstall -> UpdateWithoutInstallCheck(df)
      [] id = RuleID.MultipleCMD -> MultipleCMDCheck(df)
      [] id = RuleID.MultipleEntrypoint -> MultipleEntrypointCheck(df)
      [] id = RuleID.RelativeWorkdir -> RelativeWorkdirCheck(df)
      [] id = RuleID.SecretInEnv -> SecretInEnvCheck(df)
      [] id = RuleID.SecretInArg -> SecretInArgCheck(df)
      [] id = RuleID.NoUser -> NoUserCheck(df)
      [] id = RuleID.AddWithURL -> AddWithURLCheck(df)
      [] id = RuleID.AddOverCopy -> AddOverCopyCheck(df)
      [] id = RuleID.MissingHealthcheck -> MissingHealthcheckCheck(df)
      [] id = RuleID.WildcardCopy -> WildcardCopyCheck(df)

(***************************************************************************)
(* Analyzer                                                                *)
(***************************************************************************)
Config(ignoreRules) == [IgnoreRules |-> ignoreRules]

\* no rule skipped for the global ignore list
ignoredRulesNone(cfg, id) == FALSE

\* ignoredRules[rule.ID()] in Analyze and AnalyzeWithRules
ignoredRules(cfg, id) == \E k \in DOMAIN cfg.IgnoreRules : cfg.IgnoreRules[k] = id

\* a finding ignored for any directive on the line before, whatever it names
isIgnoredByLine(df, finding) == finding.line \in DOMAIN df.inlineIgnores

isIgnoredByInlineComment(df, finding) ==
    IF finding.line \notin DOMAIN df.inlineIgnores THEN FALSE
    ELSE \E k \in DOMAIN df.inlineIgnores[finding.line] :
            df.inlineIgnores[finding.line][k] = finding.ruleID

\* the less function given to sort.Slice
findingLess(f, g) ==
    IF f.line # g.line THEN f.line < g.line ELSE StringLess(f.ruleID, g.ruleID)

\* sort.Slice(allFindings, less): an insertion sort for the short slices of
\* findings, x moved down the sorted sequence s while it is less
RECURSIVE insertFinding(_, _)
insertFinding(s, x) ==
    IF s # <<>> /\ findingLess(x, s[Len(s)])
    THEN Append(insertFinding(SubSeq(s, 1, Len(s) - 1), x), s[Len(s)])
    ELSE Append(s, x)

RECURSIVE insertionSortFindings(_)
insertionSortFindings(fs) ==
    IF fs = <<>> THEN <<>>
    ELSE insertFinding(insertionSortFindings(SubSeq(fs, 1, Len(fs) - 1)), fs[Len(fs)])

\* the findings left in the order in which they were collected
sortFindingsOmitted(fs) == fs

sortFindings(fs) == insertionSortFindings(fs)

\* the loop over the rules left at the first globally ignored rule
allFindingsUntilIgnored(df, cfg, rules) ==
    Flatten([k \in DOMAIN rules |->
               IF \E j \in 1..k : ignoredRules(cfg, rules[j]) THEN <<>>
               ELSE SelectSeq(Check(rules[k], df),
                              LAMBDA f : ~isIgnoredByInlineComment(df, f))])

\* the findings the given rules contribute, in the order of the rules
allFindings(df, cfg, rules) ==
    Flatten([k \in DOMAIN rules |->
               IF ignoredRules(cfg, rules[k]) THEN <<>>
               ELSE SelectSeq(Check(rules[k], df),
                              LAMBDA f : ~isIgnoredByInlineComment(df, f))])

\* the findings collected in map order and returned unsorted
AnalyzeInMapOrder(df, cfg, order) ==
    IF df = Nil THEN <<>> ELSE allFindings(df, cfg, order)

\* Analyze on a tree, with the order in which the registry's map is ranged over
Analyze(df, cfg, order) ==
    IF df = Nil THEN <<>> ELSE sortFindings(allFindings(df, cfg, All(order)))

\* AnalyzeWithRules
AnalyzeWithRules(df, cfg, ruleIDs, order) ==
    IF df = Nil THEN <<>>
    ELSE sortFindings(allFindings(df, cfg,
            SelectSeq(All(order), LAMBDA id : \E k \in DOMAIN ruleIDs : ruleIDs[k] = id)))

(***************************************************************************)
(* Inputs                                                                  *)
(***************************************************************************)
SeqsUpTo(S, n) == UNION {[1..k -> S] : k \in 1..n}

LexInputs ==
    LET LexLines == {"FROM a", "RUN b \\", " c", "# d", "", "RUN ", "-x"}
    IN SeqsUpTo(LexLines, MaxLines)

(***************************************************************************)
(* The tokenizer driven by a caller.  toks is the log of the tokens that   *)
(* NextToken returned; lineStart is the number of the physical line on     *)
(* which the logical line held in currentLine starts.                      *)
(***************************************************************************)
InitParserState ==
    /\ lexer = NewLexer
    /\ peekedToken = NoToken
    /\ lineStart = 0
    /\ toks = <<>>
    /\ pc = "start"
    /\ currentToken = NoToken
    /\ errors = <<>>
    /\ inlineIgnores = EmptyIgnores
    /\ dockerfile = Nil
    /\ currentStage = Nil
    /\ stageIndex = 0
    /\ parseResult = Nil

InitLexer ==
    /\ input \in LexInputs
    /\ InitParserState
    /\ config = <<>>
    /\ calls = <<>>
    /\ NoAnalyses

\* the physical line on which the logical line of the lexer after a scan starts
StartAfterScan(L, L1, start) == IF L1.rd # L.rd THEN L.rd ELSE start

LexNext ==
    /\ Len(toks) < MaxTokens
    /\ IF toks = <<>> THEN TRUE ELSE toks[Len(toks)].tok.type # TokenType.EOF
    /\ \E r \in {NextToken(input, lexer, peekedToken)} :
          /\ lexer' = r.lx
          /\ peekedToken' = r.peeked
          /\ lineStart' = StartAfterScan(lexer, r.lx, lineStart)
          /\ toks' = Append(toks, [tok |-> r.tok, start |-> lineStart'])
    /\ UNCHANGED <<input, parseVars, anVars, conVars>>

LexPeek ==
    /\ peekedToken = NoToken
    /\ Len(toks) < MaxTokens
    /\ \E r \in {PeekToken(input, lexer, peekedToken)} :
          /\ lexer' = r.lx
          /\ peekedToken' = r.peeked
          /\ lineStart' = StartAfterScan(lexer, r.lx, lineStart)
    /\ UNCHANGED <<input, toks, parseVars, anVars, conVars>>

\* Lexer.Reset keeping the pending peeked token
LexResetKeepsPeeked ==
    /\ calls = <<>>
    /\ \E r \in {<<"RUN b \\", " c">>, <<"# d", "FROM a">>} : input' = r
    /\ lexer' = NewLexer
    /\ peekedToken' = peekedToken
    /\ lineStart' = 0
    /\ toks' = <<>>
    /\ calls' = <<[kind |-> "Reset", pending |-> peekedToken # NoToken,
                   midLine |-> (0 < lexer.linePos /\ lexer.linePos < Len(lexer.currentLine)),
                   atEOF |-> lexer.atEOF]>>
    /\ UNCHANGED <<parseVars, config, conVars>>

\* Lexer.Reset(r): the lexer reads r from its start.  toks, the log of the
\* tokens returned, starts again; calls logs the reset with the state of the
\* lexer it was made in.
LexReset ==
    /\ calls = <<>>
    /\ \E r \in {<<"RUN b \\", " c">>, <<"# d", "FROM a">>} : input' = r
    /\ lexer' = NewLexer
    /\ peekedToken' = NoToken
    /\ lineStart' = 0
    /\ toks' = <<>>
    /\ calls' = <<[kind |-> "Reset", pending |-> peekedToken # NoToken,
                   midLine |-> (0 < lexer.linePos /\ lexer.linePos < Len(lexer.currentLine)),
                   atEOF |-> lexer.atEOF]>>
    /\ UNCHANGED <<parseVars, config, conVars>>

SpecLexer == InitLexer /\ [][LexNext \/ LexPeek \/ LexReset]_vars

(***************************************************************************)
(* Parser.Parse as a process: pc is its position.  "start": Parse has not  *)
(* been entered; "loop": at the head of the token loop; "skip": inside     *)
(* skipToNextLine; "done": returned, with parseResult the returned pair.   *)
(***************************************************************************)
\* Parse, up to the token loop
ParseBegin ==
    LET EmptyDockerfile ==
            [stages |-> <<>>, instructions |-> <<>>, comments |-> <<>>,
             inlineIgnores |-> EmptyIgnores]
    IN /\ pc = "start"
       /\ lexer' = NewLexer
       /\ peekedToken' = NoToken
       /\ inlineIgnores' = EmptyIgnores
       /\ errors' = <<>>
       /\ dockerfile' = EmptyDockerfile
       /\ currentStage' = Nil
       /\ stageIndex' = 0
       /\ pc' = "loop"
       /\ UNCHANGED <<input, lineStart, toks, currentToken, parseResult, anVars, conVars>>

\* addInstruction opening a stage without the FROM instruction in its list
addInstructionFromOutsideStage(df, stage, idx, instr) ==
    LET df1 == [df EXCEPT !.instructions = Append(df.instructions, instr)]
    IN IF instr.type = "FROM"
       THEN [df |-> IF stage # Nil THEN [df1 EXCEPT !.stages = Append(df.stages, stage)] ELSE df1,
             stage |-> [name |-> instr.alias, fromInstr |-> instr,
                        instructions |-> <<>>, index |-> idx],
             idx |-> idx + 1]
       ELSE [df |-> df1,
             stage |-> IF stage # Nil
                       THEN [stage EXCEPT !.instructions = Append(stage.instructions, instr)]
                       ELSE stage,
             idx |-> idx]

\* addInstruction without the increment of the stage counter
addInstructionSameIndex(df, stage, idx, instr) ==
    LET df1 == [df EXCEPT !.instructions = Append(df.instructions, instr)]
    IN IF instr.type = "FROM"
       THEN [df |-> IF stage # Nil THEN [df1 EXCEPT !.stages = Append(df.stages, stage)] ELSE df1,
             stage |-> [name |-> instr.alias, fromInstr |-> instr,
                        instructions |-> <<instr>>, index |-> idx],
             idx |-> idx]
       ELSE [df |-> df1,
             stage |-> IF stage # Nil
                       THEN [stage EXCEPT !.instructions = Append(stage.instructions, instr)]
                       ELSE stage,
             idx |-> idx]

\* addInstruction putting the instruction at the head of the flat list
addInstructionAtHead(df, stage, idx, instr) ==
    LET df1 == [df EXCEPT !.instructions = <<instr>> \o df.instructions]
    IN IF instr.type = "FROM"
       THEN [df |-> IF stage # Nil THEN [df1 EXCEPT !.stages = Append(df.stages, stage)] ELSE df1,
             stage |-> [name |-> instr.alias, fromInstr |-> instr,
                        instructions |-> <<instr>>, index |-> idx],
             idx |-> idx + 1]
       ELSE [df |-> df1,
             stage |-> IF stage # Nil
                       THEN [stage EXCEPT !.instructions = Append(stage.instructions, instr)]
                       ELSE stage,
             idx |-> idx]

\* the tree, the open stage and the stage counter after a parsed instruction
addInstruction(df, stage, idx, instr) ==
    LET df1 == [df EXCEPT !.instructions = Append(df.instructions, instr)]
    IN IF instr.type = "FROM"
       THEN [df |-> IF stage # Nil THEN [df1 EXCEPT !.stages = Append(df.stages, stage)] ELSE df1,
             stage |-> [name |-> instr.alias, fromInstr |-> instr,
                        instructions |-> <<instr>>, index |-> idx],
             idx |-> idx + 1]
       ELSE [df |-> df1,
             stage |-> IF stage # Nil
                       THEN [stage EXCEPT !.instructions = Append(stage.instructions, instr)]
                       ELSE stage,
             idx |-> idx]

\* one iteration of the token loop of Parse
ParseLoop ==
    /\ pc = "loop"
    /\ \E n \in {NextToken(input, lexer, peekedToken)} :
          /\ currentToken' = n.tok
          /\ IF n.tok.type = TokenType.EOF
             THEN /\ parseResult' = parseReturn(dockerfile, currentStage, inlineIgnores, errors)
                  /\ dockerfile' = parseResult'.df
                  /\ pc' = "done"
                  /\ lexer' = n.lx
                  /\ peekedToken' = n.peeked
                  /\ UNCHANGED <<errors, inlineIgnores, currentStage, stageIndex>>
             ELSE IF n.tok.type = TokenType.Error
             THEN /\ parseResult' = [df |-> Nil,
                                     err |-> ParseError(n.tok.line, n.tok.column, n.tok.value)]
                  /\ pc' = "done"
                  /\ lexer' = n.lx
                  /\ peekedToken' = n.peeked
                  /\ UNCHANGED <<errors, inlineIgnores, dockerfile, currentStage, stageIndex>>
             ELSE IF n.tok.type = TokenType.Comment
             THEN /\ dockerfile' = [dockerfile EXCEPT !.comments =
                                      Append(@, [line |-> n.tok.line, text |-> n.tok.value])]
                  /\ inlineIgnores' = parseInlineIgnore(inlineIgnores, n.tok.value, n.tok.line)
                  /\ lexer' = n.lx
                  /\ peekedToken' = n.peeked
                  /\ UNCHANGED <<pc, errors, currentStage, stageIndex, parseResult>>
             ELSE IF n.tok.type = TokenType.Newline
             THEN /\ lexer' = n.lx
                  /\ peekedToken' = n.peeked
                  /\ UNCHANGED <<pc, errors, inlineIgnores, dockerfile, currentStage,
                                 stageIndex, parseResult>>
             ELSE IF n.tok.type = TokenType.Instruction
             THEN \E pi \in {parseInstruction(input, n.lx, n.peeked, n.tok)} :
                    /\ lexer' = pi.lx
                    /\ peekedToken' = pi.peeked
                    /\ IF ~pi.res.ok
                       THEN /\ errors' = Append(errors, ParseError(n.tok.line, 0, pi.res.err))
                            /\ pc' = "skip"
                            /\ UNCHANGED <<inlineIgnores, dockerfile, currentStage,
                                           stageIndex, parseResult>>
                       ELSE \E ai \in {addInstruction(dockerfile, currentStage, stageIndex,
                                                       pi.res.instr)} :
                              /\ dockerfile' = ai.df
                              /\ currentStage' = ai.stage
                              /\ stageIndex' = ai.idx
                              /\ UNCHANGED <<pc, errors, inlineIgnores, parseResult>>
             ELSE /\ errors' = Append(errors, ParseError(n.tok.line, n.tok.column,
                                 "unexpected argument without instruction: " \o n.tok.value))
                  /\ pc' = "skip"
                  /\ lexer' = n.lx
                  /\ peekedToken' = n.peeked
                  /\ UNCHANGED <<inlineIgnores, dockerfile, currentStage, stageIndex,
                                 parseResult>>
    /\ UNCHANGED <<input, lineStart, toks, anVars, conVars>>

\* one iteration of the loop of skipToNextLine
SkipToNextLine ==
    /\ pc = "skip"
    /\ \E n \in {NextToken(input, lexer, peekedToken)} :
          /\ lexer' = n.lx
          /\ peekedToken' = n.peeked
          /\ pc' = IF n.tok.type \in {TokenType.Newline, TokenType.EOF} THEN "loop" ELSE "skip"
    /\ UNCHANGED <<input, lineStart, toks, currentToken, errors, inlineIgnores,
                   dockerfile, currentStage, stageIndex, parseResult, anVars, conVars>>

ParseInputs ==
    LET ParseLines == {"FROM a", "RUN b", "RUN b \\", "COPY c", "WORKDIR", "EXPOSE", "", "# d"}
    IN SeqsUpTo(ParseLines, MaxParseLines)

InitParser ==
    /\ input \in ParseInputs
    /\ InitParserState
    /\ config = <<>>
    /\ calls = <<>>
    /\ NoAnalyses

SpecParser == InitParser /\ [][ParseBegin \/ ParseLoop \/ SkipToNextLine]_vars

(***************************************************************************)
(* The linter: a file is parsed and the tree Parse returned is analyzed.   *)
(* calls is the log of the analysis calls with what they returned.         *)
(***************************************************************************)
FileInputs ==
    LET FileLines ==
            {"FROM ubuntu", "# docker-lint ignore: DL3006", "", "ENV API_KEY=secret", "COPY c"}
        ContinuedFiles ==
            {<<"# docker-lint ignore: DL3006", "FROM ubuntu \\", " AS b">>,
             <<"FROM ubuntu \\", " AS b">>}
    IN SeqsUpTo(FileLines, MaxFileLines) \cup {<<>>} \cup ContinuedFiles

Init ==
    /\ input \in FileInputs
    /\ InitParserState
    /\ config \in {Config(<<>>), Config(<<"DL3006", "DL5000">>)}
    /\ calls = <<>>
    /\ NoAnalyses

\* Analyze consuming the inline ignore directives of the tree it is given
CallAnalyzeConsumingIgnores ==
    /\ pc = "done"
    /\ Len(calls) < MaxCalls
    /\ \E order \in MapOrders :
          calls' = Append(calls, [kind |-> "Analyze", ruleIDs |-> <<>>,
                                  findings |-> Analyze(parseResult.df, config, order)])
    /\ parseResult' = IF parseResult.df = Nil THEN parseResult
                      ELSE [parseResult EXCEPT !.df.inlineIgnores = EmptyIgnores]
    /\ UNCHANGED <<lexVars, pc, currentToken, errors, inlineIgnores, dockerfile,
                   currentStage, stageIndex, config, conVars>>

CallAnalyze ==
    /\ pc = "done"
    /\ Len(calls) < MaxCalls
    /\ \E order \in MapOrders :
          calls' = Append(calls, [kind |-> "Analyze", ruleIDs |-> <<>>,
                                  findings |-> Analyze(parseResult.df, config, order)])
    /\ UNCHANGED <<lexVars, parseVars, config, conVars>>

CallAnalyzeWithRules ==
    /\ pc = "done"
    /\ Len(calls) < MaxCalls
    /\ \E order \in MapOrders, ruleIDs \in {<<"DL4000", "DL3006", "DL9999">>} :
          calls' = Append(calls, [kind |-> "AnalyzeWithRules", ruleIDs |-> ruleIDs,
                                  findings |-> AnalyzeWithRules(parseResult.df, config,
                                                                ruleIDs, order)])
    /\ UNCHANGED <<lexVars, parseVars, config, conVars>>

Spec ==
    Init /\ [][ParseBegin \/ ParseLoop \/ SkipToNextLine \/ CallAnalyze
                \/ CallAnalyzeWithRules]_vars

(***************************************************************************)
(* The rules one at a time: a file is parsed and one registered rule       *)
(* checks the tree Parse returned.  The lines of these files are well      *)
(* formed, so Parse never enters skipToNextLine.                           *)
(***************************************************************************)
RuleInputs ==
    LET RuleLines ==
            {"FROM a", "USER u", "HEALTHCHECK NONE", "RUN apt-get install x",
             "ADD http://a http://b /d"}
        RunLines ==
            {"RUN apt-get update", "RUN apt-get update && apt-get install x",
             "RUN yum makecache", "RUN dnf makecache && dnf install x",
             "RUN yum update && yum makecache", "RUN b"}
    IN SeqsUpTo(RuleLines, MaxRuleLines) \cup SeqsUpTo(RunLines, MaxRunLines)

InitRules ==
    /\ input \in RuleInputs
    /\ InitParserState
    /\ config = <<>>
    /\ calls = <<>>
    /\ NoAnalyses

CallCheck ==
    /\ pc = "done"
    /\ calls = <<>>
    /\ \E k \in DOMAIN registered :
          calls' = <<[kind |-> "Check", ruleIDs |-> <<registered[k]>>,
                      findings |-> Check(registered[k], parseResult.df)]>>
    /\ UNCHANGED <<lexVars, parseVars, config, conVars>>

SpecRules == InitRules /\ [][ParseBegin \/ ParseLoop \/ CallCheck]_vars

(***************************************************************************)
(* Format: the canonical text of a tree, and the round trip of the         *)
(* property test: parse, format, parse again.                              *)
(***************************************************************************)
\* formatInstruction and the formatters it dispatches to.  marshal is
\* json.Marshal of a []string.
RECURSIVE formatInstruction(_)
formatInstruction(i) ==
    LET RECURSIVE quote(_)
        quote(s) ==
            IF s = "" THEN ""
            ELSE LET c == Ch(s, 1)
                     e == CASE c = "\"" -> "\\\""
                            [] c = "\\" -> "\\\\"
                            [] c = "<" -> "\\u003c"
                            [] c = ">" -> "\\u003e"
                            [] c = "&" -> "\\u0026"
                            [] OTHER -> c
                 IN e \o quote(SubSeq(s, 2, Len(s)))
        marshal(v) == "[" \o Join([k \in DOMAIN v |-> "\"" \o quote(v[k]) \o "\""], ",") \o "]"
        opt(name, v) == IF v # "" THEN <<name \o v>> ELSE <<>>
        command(keyword) ==
            IF Len(i.command) = 0 THEN keyword
            ELSE IF i.shell THEN keyword \o " " \o Join(i.command, " ")
            ELSE keyword \o " " \o marshal(i.command)
        keys == sortStrings(CHOOSE q \in [1..Cardinality(DOMAIN i.labels) -> DOMAIN i.labels] :
                                \A k \in DOMAIN i.labels : \E n \in DOMAIN q : q[n] = k)
        label(k) == IF Contains(i.labels[k], " ") THEN k \o "=\"" \o i.labels[k] \o "\""
                    ELSE k \o "=" \o i.labels[k]
    IN CASE i.type = "FROM" ->
              Join(<<"FROM">> \o opt("--platform=", i.platform)
                   \o <<i.image \o (IF i.tag # "" THEN ":" \o i.tag ELSE "")
                                \o (IF i.digest # "" THEN "@" \o i.digest ELSE "")>>
                   \o (IF i.alias # "" THEN <<"AS", i.alias>> ELSE <<>>), " ")
         [] i.type = "RUN" -> IF i.command = "" THEN "RUN" ELSE "RUN " \o i.command
         [] i.type = "COPY" ->
              Join(<<"COPY">> \o opt("--from=", i.from) \o opt("--chown=", i.chown)
                   \o i.sources \o <<i.dest>>, " ")
         [] i.type = "ADD" ->
              Join(<<"ADD">> \o opt("--chown=", i.chown) \o i.sources \o <<i.dest>>, " ")
         [] i.type = "ENV" -> IF i.key = "" THEN "ENV" ELSE "ENV " \o i.key \o "=" \o i.value
         [] i.type = "ARG" ->
              IF i.name = "" THEN "ARG"
              ELSE IF i.default # "" THEN "ARG " \o i.name \o "=" \o i.default
              ELSE "ARG " \o i.name
         [] i.type = "EXPOSE" ->
              IF Len(i.ports) = 0 THEN "EXPOSE" ELSE "EXPOSE " \o Join(i.ports, " ")
         [] i.type = "WORKDIR" -> IF i.path = "" THEN "WORKDIR" ELSE "WORKDIR " \o i.path
         [] i.type = "USER" ->
              IF i.user = "" THEN "USER"
              ELSE IF i.group # "" THEN "USER " \o i.user \o ":" \o i.group
              ELSE "USER " \o i.user
         [] i.type = "LABEL" ->
              IF DOMAIN i.labels = {} THEN "LABEL"
              ELSE Join(<<"LABEL">> \o [n \in DOMAIN keys |-> label(keys[n])], " ")
         [] i.type = "VOLUME" ->
              IF Len(i.paths) = 0 THEN "VOLUME" ELSE "VOLUME " \o marshal(i.paths)
         [] i.type = "CMD" -> command("CMD")
         [] i.type = "ENTRYPOINT" -> command("ENTRYPOINT")
         [] i.type = "HEALTHCHECK" ->
              IF i.none THEN "HEALTHCHECK NONE"
              ELSE Join(<<"HEALTHCHECK">> \o opt("--interval=", i.interval)
                        \o opt("--timeout=", i.timeout) \o opt("--retries=", i.retries)
                        \o opt("--start-period=", i.start)
                        \o (IF Len(i.command) > 1 THEN <<"CMD", marshal(i.command)>>
                            ELSE IF Len(i.command) > 0 THEN <<"CMD", i.command[1]>>
                            ELSE <<>>), " ")
         [] i.type = "SHELL" ->
              IF Len(i.shellv) = 0 THEN "SHELL" ELSE "SHELL " \o marshal(i.shellv)
         [] i.type = "STOPSIGNAL" ->
              IF i.signal = "" THEN "STOPSIGNAL" ELSE "STOPSIGNAL " \o i.signal
         [] i.type = "ONBUILD" -> "ONBUILD " \o formatInstruction(i.instruction)
         [] OTHER -> ""

\* Format: the instructions' texts, one per line
Format(df) ==
    IF df = Nil THEN ""
    ELSE Join([k \in DOMAIN df.instructions |-> formatInstruction(df.instructions[k])], "\n")

InitFormat ==
    /\ input \in SeqsUpTo({"FROM a:1 AS b", "RUN b", "CMD []", "CMD [\"a\",\"b\"]",
                           "LABEL b=\"c d\" a=e", "ENV A b", "ONBUILD RUN b",
                           "VOLUME /a /b", "HEALTHCHECK --retries=3 CMD a b",
                           "USER u:g", "WORKDIR", "EXPOSE", ""}, MaxFormatLines)
    /\ InitParserState
    /\ config = <<>>
    /\ calls = <<>>
    /\ NoAnalyses

\* formatted := Format(df); ParseString(formatted) is entered.  calls logs
\* the tree that was formatted, the error its parse returned and the text.
FormatAndReparse ==
    /\ pc = "done"
    /\ calls = <<>>
    /\ \E formatted \in {Format(parseResult.df)} :
          /\ calls' = <<[kind |-> "Format", tree |-> parseResult.df,
                         err |-> parseResult.err, text |-> formatted]>>
          /\ input' = IF formatted = "" THEN <<>> ELSE Split(formatted, "\n")
    /\ pc' = "start"
    /\ UNCHANGED <<lexer, peekedToken, lineStart, toks, currentToken, errors,
                   inlineIgnores, dockerfile, currentStage, stageIndex, parseResult,
                   config, conVars>>

SpecFormat ==
    InitFormat /\ [][ParseBegin \/ ParseLoop \/ SkipToNextLine \/ FormatAndReparse]_vars

(***************************************************************************)
(* Concurrent analyses.  A driver parses one file after the other and      *)
(* starts Analyze on each tree in a goroutine of its own; the goroutines   *)
(* share DefaultRegistry.  analyses[w] is the frame of the w-th call: its  *)
(* position (pc), its argument (dockerfile) and its locals (rules,         *)
(* allFindings), and result once it has returned.                          *)
(***************************************************************************)
InitConcurrent ==
    /\ input \in {<<"FROM ubuntu">>, <<"# docker-lint ignore: DL3006", "FROM ubuntu">>}
    /\ InitParserState
    /\ config = Config(<<"DL5000">>)
    /\ calls = <<>>
    /\ NoAnalyses

\* go a.Analyze(df) on the tree just parsed; the driver turns to the next file
\* if it has one
StartAnalyze ==
    /\ pc = "done"
    /\ parseResult.df # Nil
    /\ Len(analyses) < MaxAnalyses
    /\ analyses' = Append(analyses, [pc |-> "All", dockerfile |-> parseResult.df,
                                     rules |-> <<>>, allFindings |-> <<>>, result |-> <<>>])
    /\ IF Len(analyses') < MaxAnalyses
       THEN /\ pc' = "start"
            /\ input' = <<"ENV API_KEY=secret">>
       ELSE UNCHANGED <<pc, input>>
    /\ UNCHANGED <<lexer, peekedToken, lineStart, toks, currentToken, errors,
                   inlineIgnores, dockerfile, currentStage, stageIndex, parseResult,
                   anVars, registry>>

\* a.registry.All(), under the read lock: the keys of the map in the order
\* ranging over it yields them, sorted
AnalyzeAll ==
    \E w \in DOMAIN analyses, order \in MapOrders :
        /\ analyses[w].pc = "All"
        /\ analyses' = [analyses EXCEPT
                          ![w].rules = sortStrings(SelectSeq(order, LAMBDA id : id \in registry)),
                          ![w].pc = "rule"]
        /\ UNCHANGED <<lexVars, parseVars, anVars, registry>>

\* one iteration of the loop over the rules with every call appending to the
\* one accumulator the calls share
AnalyzeRuleSharedFindings ==
    \E w \in DOMAIN analyses :
        /\ analyses[w].pc = "rule"
        /\ analyses[w].rules # <<>>
        /\ \E found \in {allFindings(analyses[w].dockerfile, config, <<Head(analyses[w].rules)>>)} :
              analyses' = [v \in DOMAIN analyses |->
                             IF v = w
                             THEN [analyses[v] EXCEPT !.rules = Tail(@),
                                                      !.allFindings = @ \o found]
                             ELSE IF analyses[v].pc = "rule"
                             THEN [analyses[v] EXCEPT !.allFindings = @ \o found]
                             ELSE analyses[v]]
        /\ UNCHANGED <<lexVars, parseVars, anVars, registry>>

\* one iteration of the loop over the rules: the rule skipped if globally
\* ignored, else checked and its findings filtered and appended
AnalyzeRule ==
    \E w \in DOMAIN analyses :
        /\ analyses[w].pc = "rule"
        /\ analyses[w].rules # <<>>
        /\ \E found \in {allFindings(analyses[w].dockerfile, config, <<Head(analyses[w].rules)>>)} :
              analyses' = [analyses EXCEPT ![w].rules = Tail(@),
                                           ![w].allFindings = @ \o found]
        /\ UNCHANGED <<lexVars, parseVars, anVars, registry>>

\* the sort and the return
AnalyzeReturn ==
    \E w \in DOMAIN analyses :
        /\ analyses[w].pc = "rule"
        /\ analyses[w].rules = <<>>
        /\ analyses' = [analyses EXCEPT ![w].result = sortFindings(analyses[w].allFindings),
                                        ![w].pc = "returned"]
        /\ UNCHANGED <<lexVars, parseVars, anVars, registry>>

SpecConcurrent ==
    InitConcurrent
        /\ [][ParseBegin \/ ParseLoop \/ StartAnalyze \/ AnalyzeAll \/ AnalyzeRule
              \/ AnalyzeReturn]_vars

(***************************************************************************)
(* JSONFormatter.Format on a slice of findings.  The call is logged with   *)
(* its arguments and the JSONOutput value it encodes.                      *)
(***************************************************************************)
InitJSON ==
    /\ input = <<>>
    /\ InitParserState
    /\ config = Config(<<>>)
    /\ calls = <<>>
    /\ NoAnalyses

\* Format with the summary counting the findings that quiet mode skips
FormatJSONCountingSkipped ==
    LET String(severity) ==
            CASE severity = SeverityInfo -> "info"
              [] severity = SeverityWarning -> "warning"
              [] severity = SeverityError -> "error"
              [] OTHER -> "unknown"
        Count(fs, severity) == Len(SelectSeq(fs, LAMBDA f : f.severity = severity))
        Output(fs, quiet) ==
            LET rendered == SelectSeq(fs, LAMBDA f : ~(quiet /\ f.severity = SeverityInfo))
            IN [file |-> "Dockerfile",
                findings |-> [k \in DOMAIN rendered |->
                                [rule_id |-> rendered[k].ruleID,
                                 severity |-> String(rendered[k].severity),
                                 line |-> rendered[k].line,
                                 column |-> rendered[k].column,
                                 message |-> rendered[k].message,
                                 suggestion |-> rendered[k].suggestion]],
                summary |-> [total |-> Len(fs),
                             errors |-> Count(fs, SeverityError),
                             warnings |-> Count(fs, SeverityWarning),
                             info |-> Count(fs, SeverityInfo)]]
    IN /\ calls = <<>>
       /\ \E quiet \in BOOLEAN,
             fs \in {<<>>} \cup SeqsUpTo({Finding("DL3006", severity, 1, 1, "m", "s") :
                                            severity \in 0..3}, MaxFindings) :
             calls' = <<[kind |-> "Format", findings |-> fs, quiet |-> quiet,
                         output |-> Output(fs, quiet)]>>
       /\ UNCHANGED <<lexVars, parseVars, config, conVars>>

\* f.Format(findings, w) for a slice of findings of every severity, the
\* value 3 that no constant names included, and for both values of Quiet
FormatJSON ==
    LET String(severity) ==
            CASE severity = SeverityInfo -> "info"
              [] severity = SeverityWarning -> "warning"
              [] severity = SeverityError -> "error"
              [] OTHER -> "unknown"
        Count(fs, severity) == Len(SelectSeq(fs, LAMBDA f : f.severity = severity))
        Output(fs, quiet) ==
            LET rendered == SelectSeq(fs, LAMBDA f : ~(quiet /\ f.severity = SeverityInfo))
            IN [file |-> "Dockerfile",
                findings |-> [k \in DOMAIN rendered |->
                                [rule_id |-> rendered[k].ruleID,
                                 severity |-> String(rendered[k].severity),
                                 line |-> rendered[k].line,
                                 column |-> rendered[k].column,
                                 message |-> rendered[k].message,
                                 suggestion |-> rendered[k].suggestion]],
                summary |-> [total |-> Len(rendered),
                             errors |-> Count(rendered, SeverityError),
                             warnings |-> Count(rendered, SeverityWarning),
                             info |-> Count(rendered, SeverityInfo)]]
    IN /\ calls = <<>>
       /\ \E quiet \in BOOLEAN,
             fs \in {<<>>} \cup SeqsUpTo({Finding("DL3006", severity, 1, 1, "m", "s") :
                                            severity \in 0..3}, MaxFindings) :
             calls' = <<[kind |-> "Format", findings |-> fs, quiet |-> quiet,
                         output |-> Output(fs, quiet)]>>
       /\ UNCHANGED <<lexVars, parseVars, config, conVars>>

SpecJSON == InitJSON /\ [][FormatJSON]_vars

(***************************************************************************)
(* Tokenizer claims                                                        *)
(***************************************************************************)
\* what is left to scan: unread physical lines, then unread characters of
\* the logical line in currentLine
UnreadLines(L) == Len(input) + 1 - L.rd

UnreadChars(L) == IF L.currentLine = "" THEN 0 ELSE Len(L.currentLine) - L.linePos

Advanced(L, L1) ==
    \/ UnreadLines(L1) < UnreadLines(L)
    \/ UnreadLines(L1) = UnreadLines(L) /\ UnreadChars(L1) < UnreadChars(L)

\* a step in which scanToken ran, and the token it returned
ScanStep == peekedToken = NoToken /\ (Len(toks') > Len(toks) \/ peekedToken' # NoToken)

ScannedToken == IF peekedToken' # NoToken THEN peekedToken' ELSE toks'[Len(toks')].tok

\* C6: the tokenizer always advances: every scanToken call either returns
\* the End token or consumes input (a physical line or characters of the
\* current logical line), so that the token sequence of a finite input is
\* finite and ends with End, whatever characters a line starts with.
TokenizerAlwaysAdvances ==
    [][ScanStep => (ScannedToken.type = TokenType.EOF \/ Advanced(lexer, lexer'))]_vars

\* C8: every token emitted for a logical line carries the number of the
\* first physical line of that logical line.
TokenLineIsFirstPhysicalLine ==
    \A i \in DOMAIN toks :
        toks[i].tok.type # TokenType.EOF => toks[i].tok.line = toks[i].start

(***************************************************************************)
(* Parser claims                                                           *)
(***************************************************************************)
\* C15: the tokenizer emits exactly one Newline token for every logical
\* line, after the Comment, Instruction and Argument tokens of that line:
\* the token after such a token is a further token of the same logical line,
\* its Newline at the latest, and no logical line has two Newline tokens.
NewlineEndsEveryLogicalLine ==
    /\ \A k \in 1..(Len(toks) - 1) :
          toks[k].tok.type \in {TokenType.Comment, TokenType.Instruction, TokenType.Argument} =>
              /\ toks[k + 1].start = toks[k].start
              /\ toks[k + 1].tok.type \in {TokenType.Argument, TokenType.Newline}
    /\ \A j, k \in DOMAIN toks :
          (j < k /\ toks[j].tok.type = TokenType.Newline /\ toks[k].tok.type = TokenType.Newline)
              => toks[j].start # toks[k].start

\* the first n tokens of the input as NextToken alone returns them, from the
\* lexer L on
RECURSIVE NextTokens(_, _)
NextTokens(L, n) ==
    IF n = 0 THEN <<>>
    ELSE Only({<<r.tok>> \o NextTokens(r.lx, n - 1) : r \in {NextToken(input, L, NoToken)}})

\* C20: peeking does not consume: with a peeked token pending, a further
\* PeekToken call returns that token and changes nothing, the next NextToken
\* call returns that same token (type, value, line, column), and the tokens
\* NextToken has returned are those a lexer that is never peeked returns.
PeekDoesNotConsume ==
    /\ peekedToken # NoToken =>
          /\ PeekToken(input, lexer, peekedToken)
                 = [tok |-> peekedToken, lx |-> lexer, peeked |-> peekedToken]
          /\ NextToken(input, lexer, peekedToken).tok = peekedToken
    /\ [k \in DOMAIN toks |-> toks[k].tok] = NextTokens(NewLexer, Len(toks))
    /\ peekedToken # NoToken =>
          NextTokens(NewLexer, Len(toks) + 1)[Len(toks) + 1] = peekedToken

\* a token of a later line is peeked after tokens have been consumed
PeekDoesNotConsumeWitness ==
    /\ Len(toks) >= 2
    /\ peekedToken # NoToken
    /\ peekedToken.type \in {TokenType.Instruction, TokenType.Argument, TokenType.Comment}
    /\ peekedToken.line > toks[Len(toks)].tok.line

\* C21: the token stream is restartable: after Reset(r), made mid-line, at
\* the end of the input or with a peeked token pending, the lexer returns
\* exactly the tokens, with the same line numbers from 1 on, that a newly
\* constructed lexer over r returns.
ResetLexerIsFresh ==
    \A c \in DOMAIN calls :
        calls[c].kind = "Reset" =>
            /\ [k \in DOMAIN toks |-> toks[k].tok] = NextTokens(NewLexer, Len(toks))
            /\ NextToken(input, lexer, peekedToken).tok
                   = NextTokens(NewLexer, Len(toks) + 1)[Len(toks) + 1]

\* the lexer was reset mid-line with a peeked token pending and has returned
\* the tokens of a continued line since
ResetLexerIsFreshWitness ==
    \E c \in DOMAIN calls :
        /\ calls[c].kind = "Reset"
        /\ calls[c].pending
        /\ calls[c].midLine
        /\ Len(toks) >= 2
        /\ toks[Len(toks)].tok.type = TokenType.EOF

\* a line that, alone in a file, is one instruction that parses without error
WellFormedLine(line) ==
    \E n \in {NextToken(<<line>>, NewLexer, NoToken)} :
        /\ n.tok.type = TokenType.Instruction
        /\ parseInstruction(<<line>>, n.lx, n.peeked, n.tok).res.ok

\* C7: after a parse error is recorded for a line, every well-formed
\* instruction on a later line is still parsed and appears in the tree's
\* instructions, whether or not a blank line separates it from the
\* offending line.
ParserContinuesPastOffendingLine ==
    pc = "done" =>
        \A e \in DOMAIN errors :
            \A k \in (errors[e].line + 1)..Len(input) :
                WellFormedLine(input[k]) =>
                    \E i \in DOMAIN parseResult.df.instructions :
                        parseResult.df.instructions[i].line = k

\* C10: when parsing recorded one or more errors, Parse returns a non-nil
\* partial tree holding the instructions that parsed, together with the
\* error recorded first; an error recorded later never replaces the first one.
ParseReturnsFirstError ==
    /\ [](pc = "done" /\ errors # <<>> =>
            /\ parseResult.df # Nil
            /\ parseResult.df.instructions = dockerfile.instructions
            /\ parseResult.err = errors[1]
            /\ \A e \in DOMAIN errors : parseResult.err.line <= errors[e].line)
    /\ [][errors # <<>> => Len(errors') >= Len(errors) /\ errors'[1] = errors[1]]_vars

ParseReturnsFirstErrorWitness ==
    /\ pc = "done"
    /\ Len(errors) >= 2
    /\ errors[2] # errors[1]
    /\ Len(parseResult.df.instructions) >= 1
    /\ parseResult.err = errors[1]

\* a step of the token loop of Parse that read an Instruction token
InstructionStep == pc = "loop" /\ currentToken'.type = TokenType.Instruction

\* the token that follows the token the loop is about to read
FollowingToken == NextToken(input, NextToken(input, lexer, peekedToken).lx, NoToken).tok

\* what the per-instruction parser makes of the instruction just read with
\* the empty operand
EmptyOperandResult ==
    parseDispatch(currentToken'.value, currentToken'.line, currentToken'.value, "")

\* C16: when the token after an Instruction token is not an Argument token,
\* the parser takes the operand to be empty and dispatches to the
\* per-instruction parser with it, whatever the kind of that token: the
\* instruction that parser returns is appended to the tree (an EXPOSE with
\* no ports), or the error it returns is recorded.
NonArgumentMeansEmptyOperand ==
    [][(InstructionStep /\ FollowingToken.type # TokenType.Argument) =>
          IF EmptyOperandResult.ok
          THEN dockerfile'.instructions = Append(dockerfile.instructions, EmptyOperandResult.instr)
          ELSE errors' = Append(errors, ParseError(currentToken'.line, 0, EmptyOperandResult.err))]_vars

\* Parse has returned a tree
Parsed == pc = "done" /\ parseResult.df # Nil

\* the positions of the FROM instructions in the flat list, in order
FromPositions(instrs) ==
    SelectSeq([i \in DOMAIN instrs |-> i], LAMBDA i : instrs[i].type = "FROM")

\* the flat list from its first FROM instruction on
FromFirstFrom(instrs) ==
    IF FromPositions(instrs) = <<>> THEN <<>>
    ELSE SubSeq(instrs, FromPositions(instrs)[1], Len(instrs))

\* C17: after Parse the stage lists partition the flat list by position:
\* the stages' instruction lists, concatenated in stage order, are exactly
\* Dockerfile.instructions without the instructions before the first FROM;
\* so every instruction of a stage is in Dockerfile.instructions too.
StagesPartitionInstructions ==
    Parsed =>
        Flatten([s \in DOMAIN parseResult.df.stages |-> parseResult.df.stages[s].instructions])
            = FromFirstFrom(parseResult.df.instructions)

\* an instruction before the first FROM, then two stages, one of them with
\* an instruction after its FROM
StagesPartitionInstructionsWitness ==
    /\ Parsed
    /\ Len(parseResult.df.stages) = 2
    /\ parseResult.df.instructions[1].type # "FROM"
    /\ \E s \in DOMAIN parseResult.df.stages : Len(parseResult.df.stages[s].instructions) >= 2

\* C18: after Parse there is one stage for every FROM instruction of
\* Dockerfile.instructions and no other: the k-th stage (counted from 0) has
\* index k and is opened by the k-th FROM instruction, and an instruction
\* parsed before the first FROM is in Dockerfile.instructions and in no stage.
OneStagePerFrom ==
    Parsed =>
        /\ Len(parseResult.df.stages) = Len(FromPositions(parseResult.df.instructions))
        /\ \A k \in DOMAIN parseResult.df.stages :
              /\ parseResult.df.stages[k].index = k - 1
              /\ parseResult.df.stages[k].fromInstr
                     = parseResult.df.instructions[FromPositions(parseResult.df.instructions)[k]]
        /\ \A i \in DOMAIN parseResult.df.instructions :
              (\A j \in 1..i : parseResult.df.instructions[j].type # "FROM") =>
                  \A s \in DOMAIN parseResult.df.stages :
                      \A j \in DOMAIN parseResult.df.stages[s].instructions :
                          parseResult.df.stages[s].instructions[j] # parseResult.df.instructions[i]

\* an instruction before the first FROM and a second stage
OneStagePerFromWitness ==
    /\ Parsed
    /\ Len(parseResult.df.stages) >= 2
    /\ parseResult.df.instructions[1].type = "RUN"
    /\ parseResult.df.stages[2].index = 1

\* C19: the line numbers of the instructions of Dockerfile.instructions
\* never decrease in list order.
InstructionLinesNonDecreasing ==
    Parsed =>
        \A i \in 1..(Len(parseResult.df.instructions) - 1) :
            parseResult.df.instructions[i].line <= parseResult.df.instructions[i + 1].line

\* three instructions, the first of them continued over two physical lines
InstructionLinesNonDecreasingWitness ==
    /\ Parsed
    /\ Len(parseResult.df.instructions) = 3
    /\ HasSuffix(input[1], "\\")
    /\ parseResult.df.instructions[1].line < parseResult.df.instructions[2].line
    /\ parseResult.df.instructions[2].line < parseResult.df.instructions[3].line

(***************************************************************************)
(* Analysis claims                                                         *)
(***************************************************************************)
\* the tree that was analyzed
Tree == parseResult.df

Findings(c) == calls[c].findings

\* the calls of the state a call has just returned in: the call last logged.
\* Every call is the last one in the state after it, so that an invariant
\* about the last call is about every call.
LastCall == {Len(calls)} \ {0}

HasFinding(fs, line, id) == \E i \in DOMAIN fs : fs[i].line = line /\ fs[i].ruleID = id

\* the call logged at position c made again on the tree df
Rerun(c, df, order) ==
    IF calls[c].kind = "Analyze" THEN Analyze(df, config, order)
    ELSE AnalyzeWithRules(df, config, calls[c].ruleIDs, order)

\* the directives of the tree: the comment's line with each rule it names
Directives ==
    UNION {{[line |-> Tree.comments[k].line, rule |-> r] :
              r \in {inlineIgnoreIDs(Tree.comments[k].text)[j] :
                       j \in DOMAIN inlineIgnoreIDs(Tree.comments[k].text)}} :
             k \in DOMAIN Tree.comments}

\* the tree as it is without the directive d
WithoutDirective(df, d) ==
    LET rest == SelectSeq(df.inlineIgnores[d.line + 1], LAMBDA r : r # d.rule)
    IN IF d.line + 1 \notin DOMAIN df.inlineIgnores THEN df
       ELSE
       [df EXCEPT !.inlineIgnores =
          IF rest = <<>>
          THEN [t \in DOMAIN df.inlineIgnores \ {d.line + 1} |-> df.inlineIgnores[t]]
          ELSE [df.inlineIgnores EXCEPT ![d.line + 1] = rest]]

Except(fs, line, id) == SelectSeq(fs, LAMBDA f : ~(f.line = line /\ f.ruleID = id))

\* C1: no finding returned by Analyze or by AnalyzeWithRules, whatever the
\* requested rule list, has a rule ID that is in the global ignore set.
GlobalIgnoreIsTotal ==
    \A c \in DOMAIN calls : \A i \in DOMAIN Findings(c) :
        \A k \in DOMAIN config.IgnoreRules : Findings(c)[i].ruleID # config.IgnoreRules[k]

GlobalIgnoreIsTotalWitness ==
    /\ Len(calls) = 2
    /\ calls[1].kind = "Analyze"
    /\ calls[2].kind = "AnalyzeWithRules"
    /\ Findings(1) # <<>>
    /\ \E k \in DOMAIN config.IgnoreRules :
          /\ \E j \in DOMAIN calls[2].ruleIDs : calls[2].ruleIDs[j] = config.IgnoreRules[k]
          /\ \E f \in {Check(config.IgnoreRules[k], Tree)[i] :
                         i \in DOMAIN Check(config.IgnoreRules[k], Tree)} :
                ~isIgnoredByInlineComment(Tree, f)

\* C2: for a directive on line L naming rule R, the result has no finding
\* with line L+1 and rule R, and all other findings (other rules on line L+1,
\* rule R on other lines) are exactly those of the analysis without the
\* directive.
InlineIgnoreIsLocal ==
    pc = "done" =>
        \A c \in LastCall : \A d \in Directives :
            /\ ~HasFinding(Findings(c), d.line + 1, d.rule)
            /\ Findings(c)
                 = Except(Rerun(c, WithoutDirective(Tree, d), registered), d.line + 1, d.rule)

InlineIgnoreIsLocalWitness ==
    /\ pc = "done"
    /\ \E c \in DOMAIN calls : \E d \in Directives :
          /\ HasFinding(Rerun(c, WithoutDirective(Tree, d), registered), d.line + 1, d.rule)
          /\ \E i \in DOMAIN Findings(c) :
                Findings(c)[i].line = d.line + 1 /\ Findings(c)[i].ruleID # d.rule

\* C3: the findings Analyze returns are sorted: adjacent findings are in
\* increasing line order, and on equal lines in non-decreasing rule ID order.
FindingsAreSorted ==
    \A c \in DOMAIN calls :
        calls[c].kind = "Analyze" =>
            \A i \in 1..(Len(Findings(c)) - 1) :
                \/ Findings(c)[i].line < Findings(c)[i + 1].line
                \/ /\ Findings(c)[i].line = Findings(c)[i + 1].line
                   /\ ~StringLess(Findings(c)[i + 1].ruleID, Findings(c)[i].ruleID)

FindingsAreSortedWitness ==
    \E c \in DOMAIN calls :
        /\ calls[c].kind = "Analyze"
        /\ Findings(c) # allFindings(Tree, config, All(registered))
        /\ \E i \in 1..(Len(Findings(c)) - 1) :
              /\ Findings(c)[i].line = Findings(c)[i + 1].line
              /\ Findings(c)[i].ruleID # Findings(c)[i + 1].ruleID

OtherSecretValues == {"", "hunter2"}

IsSecretInstruction(instr) ==
    \/ instr.type = "ENV" /\ isSecretKey(instr.key)
    \/ instr.type = "ARG" /\ isSecretKey(instr.name)

SecretValue(instr) == IF instr.type = "ENV" THEN instr.value ELSE instr.default

\* the instruction as it is parsed when its value is v
WithValue(instr, v) ==
    IF ~IsSecretInstruction(instr) THEN instr
    ELSE IF instr.type = "ENV"
    THEN [instr EXCEPT !.value = v, !.raw = "ENV " \o instr.key \o "=" \o v]
    ELSE [instr EXCEPT !.default = v, !.raw = "ARG " \o instr.name \o "=" \o v]

WithValues(instrs, v) == [i \in DOMAIN instrs |-> WithValue(instrs[i], v)]

\* the tree with every secret-named ENV value and ARG default replaced by v
WithSecretValues(df, v) ==
    [df EXCEPT !.instructions = WithValues(df.instructions, v),
               !.stages = [s \in DOMAIN df.stages |->
                             [df.stages[s] EXCEPT !.instructions =
                                WithValues(df.stages[s].instructions, v)]]]

SecretInstructions == {Tree.instructions[i] : i \in {j \in DOMAIN Tree.instructions :
                                                       IsSecretInstruction(Tree.instructions[j])}}

IsBlankLine(line) == TrimSpace(line) = ""

\* the first non-blank line after line l, as a set: empty when there is none
NextNonBlank(l) ==
    {t \in (l + 1)..Len(input) :
        /\ ~IsBlankLine(input[t])
        /\ \A b \in (l + 1)..(t - 1) : IsBlankLine(input[b])}

WithoutDirectives(df) == [df EXCEPT !.inlineIgnores = EmptyIgnores]

\* C9 as stated: a directive applies to the next non-blank source line after
\* it: the findings of the named rules on that line are suppressed, also when
\* blank lines lie between the directive and that line.
InlineIgnoreAppliesToNextNonBlankLine ==
    pc = "done" =>
        \A c \in DOMAIN calls : \A d \in Directives : \A t \in NextNonBlank(d.line) :
            ~HasFinding(Findings(c), t, d.rule)

\* C9 amended: a directive on line L applies to line L+1 and to no other: no
\* finding of a named rule has line L+1, and when line L+1 is blank the
\* findings of the named rules on the next non-blank line are reported as
\* they are without any directive.
InlineIgnoreAppliesToFollowingLine ==
    pc = "done" =>
        \A c \in LastCall : \A d \in Directives :
            /\ ~HasFinding(Findings(c), d.line + 1, d.rule)
            /\ \A t \in NextNonBlank(d.line) :
                  t > d.line + 1 =>
                      (HasFinding(Rerun(c, WithoutDirectives(Tree), registered), t, d.rule)
                           => HasFinding(Findings(c), t, d.rule))

InlineIgnoreAppliesToFollowingLineWitness ==
    /\ pc = "done"
    /\ \E c \in DOMAIN calls : \E d \in Directives : \E t \in NextNonBlank(d.line) :
          /\ t > d.line + 1
          /\ IsBlankLine(input[d.line + 1])
          /\ HasFinding(Findings(c), t, d.rule)


\* C24: an empty input file parses without error into a tree with no
\* instructions and no stages, and Analyze with every default rule enabled
\* returns no finding for it.
EmptyFileHasNoFindings ==
    (input = <<>> /\ pc = "done") =>
        /\ parseResult.err = NoError
        /\ Tree # Nil
        /\ Tree.instructions = <<>>
        /\ Tree.stages = <<>>
        /\ \A c \in DOMAIN calls :
              (calls[c].kind = "Analyze" /\ config = Config(<<>>)) => Findings(c) = <<>>

EmptyFileHasNoFindingsWitness ==
    /\ input = <<>>
    /\ pc = "done"
    /\ config = Config(<<>>)
    /\ calls # <<>>
    /\ calls[1].kind = "Analyze"

\* C26: analysis leaves the tree as it was: across every call of Analyze or
\* AnalyzeWithRules the instructions with all their fields, the stages, the
\* comments and the inline ignore map of the Dockerfile keep their values.
AnalysisLeavesTreeUnchanged ==
    [][calls' # calls =>
          /\ parseResult'.err = parseResult.err
          /\ (parseResult.df = Nil) = (parseResult'.df = Nil)
          /\ parseResult.df # Nil =>
                /\ parseResult'.df.instructions = parseResult.df.instructions
                /\ parseResult'.df.stages = parseResult.df.stages
                /\ parseResult'.df.comments = parseResult.df.comments
                /\ parseResult'.df.inlineIgnores = parseResult.df.inlineIgnores]_vars

\* both kinds of call have returned findings for a tree with instructions,
\* a stage, a comment and an inline ignore directive
AnalysisLeavesTreeUnchangedWitness ==
    /\ Len(calls) = 2
    /\ calls[1].kind = "Analyze"
    /\ calls[2].kind = "AnalyzeWithRules"
    /\ Findings(1) # <<>>
    /\ Tree # Nil
    /\ Tree.instructions # <<>>
    /\ Tree.stages # <<>>
    /\ Tree.comments # <<>>
    /\ DOMAIN Tree.inlineIgnores # {}

\* the physical lines of the instruction that starts on line l: l and the
\* lines that continue it
InstructionSpan(l) ==
    {t \in l..Len(input) : \A b \in l..(t - 1) : HasSuffix(TrimSpace(input[b]), "\\")}

\* C28: an inline ignore directive on the physical line immediately before an
\* instruction that is continued over several physical lines suppresses the
\* findings of the named rule for that instruction.
InlineIgnoreCoversContinuedInstruction ==
    pc = "done" =>
        \A c \in LastCall : \A d \in Directives :
            (d.line + 1 \in DOMAIN input /\ Cardinality(InstructionSpan(d.line + 1)) > 1) =>
                \A t \in InstructionSpan(d.line + 1) : ~HasFinding(Findings(c), t, d.rule)

\* what Analyze returns for the tree with nothing globally ignored
Unfiltered == Analyze(Tree, Config(<<>>), registered)

\* C29: globally ignoring rules does not change what the other rules report:
\* Analyze with ignore set I returns the sequence Analyze returns with the
\* empty ignore set, less the findings whose rule ID is in I, in the same order.
GlobalIgnoreOnlyFilters ==
    \A c \in LastCall :
        calls[c].kind = "Analyze" =>
            Findings(c) = SelectSeq(Unfiltered, LAMBDA f : ~ignoredRules(config, f.ruleID))

\* rules are ignored, findings of theirs are dropped and findings of other
\* rules are returned
GlobalIgnoreOnlyFiltersWitness ==
    /\ calls # <<>>
    /\ calls[Len(calls)].kind = "Analyze"
    /\ config.IgnoreRules # <<>>
    /\ Len(Findings(Len(calls))) >= 2
    /\ Len(SelectSeq(Unfiltered, LAMBDA f : ignoredRules(config, f.ruleID))) >= 2

InstructionLines == {Tree.instructions[i].line : i \in DOMAIN Tree.instructions}

\* C30: every finding Analyze returns for a tree of the parser has the line
\* of an instruction of Dockerfile.instructions; the stage-level rules DL4002
\* and DL5000 report on the line of an instruction of the stage, never on
\* line 0 or on a line without instruction.
FindingLinesAreInstructionLines ==
    \A c \in LastCall :
        calls[c].kind = "Analyze" =>
            \A k \in DOMAIN calls[c].findings : calls[c].findings[k].line \in InstructionLines

\* DL4002 and DL5000 have reported for a file whose first line holds no
\* instruction
FindingLinesAreInstructionLinesWitness ==
    /\ calls # <<>>
    /\ calls[Len(calls)].kind = "Analyze"
    /\ 1 \notin InstructionLines
    /\ \E l \in InstructionLines :
          /\ HasFinding(Findings(Len(calls)), l, RuleID.NoUser)
          /\ HasFinding(Findings(Len(calls)), l, RuleID.MissingHealthcheck)

(***************************************************************************)
(* Rule claims: what one rule reports on the tree of a parsed file         *)
(***************************************************************************)
\* the check logged last, when it is a check of the rule with the given ID
CheckedBy(id) == {c \in LastCall : calls[c].kind = "Check" /\ calls[c].ruleIDs = <<id>>}

HasType(instrs, type) == \E i \in DOMAIN instrs : instrs[i].type = type

LastLine(instrs) == instrs[Len(instrs)].line

StagesWithoutUser == SelectSeq(Tree.stages, LAMBDA st : ~HasType(st.instructions, "USER"))

\* C11: DL4002 reports exactly one finding for each stage that contains no
\* USER instruction, in stage order (the k-th finding names the k-th such
\* stage and lies on that stage's last instruction), and nothing for a stage
\* that contains a USER instruction.
OneNoUserFindingPerStageWithoutUser ==
    \A c \in CheckedBy(RuleID.NoUser) :
        /\ Len(Findings(c)) = Len(StagesWithoutUser)
        /\ \A k \in DOMAIN Findings(c) :
              /\ Findings(c)[k].ruleID = RuleID.NoUser
              /\ Findings(c)[k].line = LastLine(StagesWithoutUser[k].instructions)
              /\ Contains(Findings(c)[k].message,
                          "in stage " \o intToString(StagesWithoutUser[k].index) \o ";")

\* a file of three stages or more in which a stage with a USER instruction
\* lies between two stages without one
OneNoUserFindingPerStageWithoutUserWitness ==
    \E c \in CheckedBy(RuleID.NoUser) :
        /\ Len(Findings(c)) = 2
        /\ \E s \in 2..(Len(Tree.stages) - 1) :
              /\ HasType(Tree.stages[s].instructions, "USER")
              /\ ~HasType(Tree.stages[s - 1].instructions, "USER")
              /\ ~HasType(Tree.stages[s + 1].instructions, "USER")

\* C12: DL5000 reports a finding if and only if Dockerfile.instructions
\* holds no HEALTHCHECK instruction, also when the tree has instructions but
\* no stage.
HealthcheckFindingIffNoHealthcheck ==
    \A c \in CheckedBy(RuleID.MissingHealthcheck) :
        (Findings(c) # <<>>) <=> ~HasType(Tree.instructions, "HEALTHCHECK")

IsRun(instrs, i) == i \in DOMAIN instrs /\ instrs[i].type = "RUN"

\* the positions at which a maximal run of RUN instructions starts, in order
RunStarts(instrs) ==
    SelectSeq([i \in DOMAIN instrs |-> i], LAMBDA i : IsRun(instrs, i) /\ ~IsRun(instrs, i - 1))

\* the length of the maximal run of RUN instructions that starts at i
RunLength(instrs, i) ==
    CHOOSE n \in 1..Len(instrs) :
        (\A j \in i..(i + n - 1) : IsRun(instrs, j)) /\ ~IsRun(instrs, i + n)

LongRuns(instrs) == SelectSeq(RunStarts(instrs), LAMBDA i : RunLength(instrs, i) >= 2)

\* C13: DL3010 reports exactly one finding for every maximal run of two or
\* more consecutive RUN instructions of the flat instruction list, in list
\* order, on the line of the first RUN of the run and naming the length of
\* the run, also for a run that ends at the end of the list; a single RUN
\* gives no finding.
ConsecutiveRunFindingPerMaximalRun ==
    \A c \in CheckedBy(RuleID.ConsecutiveRun) :
        /\ Len(Findings(c)) = Len(LongRuns(Tree.instructions))
        /\ \A k \in DOMAIN Findings(c) :
              /\ Findings(c)[k].line = Tree.instructions[LongRuns(Tree.instructions)[k]].line
              /\ Contains(Findings(c)[k].message,
                          "Found " \o intToString(RunLength(Tree.instructions,
                                                            LongRuns(Tree.instructions)[k]))
                                   \o " consecutive")

\* two runs in one file: the first ended by another instruction, the second
\* by the end of the list
ConsecutiveRunFindingPerMaximalRunWitness ==
    \E c \in CheckedBy(RuleID.ConsecutiveRun) :
        /\ Len(Findings(c)) = 2
        /\ IsRun(Tree.instructions, Len(Tree.instructions))
        /\ Findings(c)[2].line > 1

\* C14: the output of one rule holds at most one finding for any one
\* instruction, also when several matches exist for it (several URL sources
\* of one ADD, several later package-install RUNs after one COPY or ADD).
AtMostOneFindingPerInstruction ==
    \A c \in LastCall :
        calls[c].kind = "Check" =>
            \A i \in DOMAIN Tree.instructions :
                Cardinality({k \in DOMAIN Findings(c) :
                               Findings(c)[k].line = Tree.instructions[i].line}) <= 1

\* the case DL3012 is specified for: a package index refresh with no install
\* in the same command
RefreshWithoutInstall(cmd) ==
    \/ /\ MatchString(<<Lit("apt-get"), Spaces, Lit("update")>>, cmd)
       /\ ~MatchString(<<Lit("apt-get"), Spaces, Alt({"install", "upgrade"})>>, cmd)
    \/ /\ MatchString(<<Alt({"yum", "dnf"}), Spaces, Lit("makecache")>>, cmd)
       /\ ~MatchString(<<Alt({"yum", "dnf"}), Spaces, Lit("install")>>, cmd)

RefreshingRuns ==
    SelectSeq(Tree.instructions,
              LAMBDA i : i.type = "RUN" /\ RefreshWithoutInstall(i.command))

\* C23: DL3012 reports exactly one finding for every RUN whose command
\* contains apt-get update without apt-get install or upgrade, or contains
\* yum or dnf makecache without yum or dnf install, on the line of that RUN, and
\* no finding for any other RUN.
UpdateWithoutInstallFindingPerRefresh ==
    \A c \in CheckedBy(RuleID.UpdateWithoutInstall) :
        /\ Len(Findings(c)) = Len(RefreshingRuns)
        /\ \A k \in DOMAIN Findings(c) : Findings(c)[k].line = RefreshingRuns[k].line

(***************************************************************************)
(* Formatter claims                                                        *)
(***************************************************************************)
\* the value fields of an instruction: everything but its position and raw text
RECURSIVE ValueFields(_)
ValueFields(i) ==
    [f \in DOMAIN i \ {"line", "raw"} |->
        IF f = "instruction" THEN ValueFields(i[f]) ELSE i[f]]

SameInstructions(a, b) ==
    /\ Len(a) = Len(b)
    /\ \A k \in DOMAIN a : a[k].type = b[k].type /\ ValueFields(a[k]) = ValueFields(b[k])

\* the text parsed without error, was formatted, and the formatted text has
\* been parsed in turn
Reparsed == pc = "done" /\ calls # <<>> /\ calls[1].err = NoError

\* [C22] Round trip: parsing a text, formatting the tree and parsing the
\* formatted text gives the same instruction types in the same order with
\* equal value fields (label maps compared as maps).
RoundTripPreservesInstructions ==
    Reparsed =>
        /\ parseResult.df # Nil
        /\ SameInstructions(calls[1].tree.instructions, parseResult.df.instructions)

\* the entries of the findings array of severity s
Rendered(c, s) == {k \in DOMAIN calls[c].output.findings : calls[c].output.findings[k].severity = s}

\* C27: in JSON output summary.total is the number of entries of the findings
\* array, summary.errors, summary.warnings and summary.info are the numbers of
\* entries of each severity, and in quiet mode no Info finding is rendered or
\* counted.
SummaryMatchesRenderedFindings ==
    \A c \in LastCall :
        calls[c].kind = "Format" =>
            /\ calls[c].output.summary.total = Len(calls[c].output.findings)
            /\ calls[c].output.summary.errors = Cardinality(Rendered(c, "error"))
            /\ calls[c].output.summary.warnings = Cardinality(Rendered(c, "warning"))
            /\ calls[c].output.summary.info = Cardinality(Rendered(c, "info"))
            /\ calls[c].quiet => (Rendered(c, "info") = {} /\ calls[c].output.summary.info = 0)

\* a quiet call given an Info finding beside findings that are rendered
SummaryMatchesRenderedFindingsWitness ==
    /\ calls # <<>>
    /\ calls[1].kind = "Format"
    /\ calls[1].quiet
    /\ \E k \in DOMAIN calls[1].findings : calls[1].findings[k].severity = SeverityInfo
    /\ calls[1].output.summary.warnings = 1
    /\ calls[1].output.summary.errors = 1

(***************************************************************************)
(* Concurrency claims                                                      *)
(***************************************************************************)
Returned(w) == w \in DOMAIN analyses /\ analyses[w].pc = "returned"

\* C25: concurrent analyses of different inputs sharing the rule registry do
\* not interfere: in every interleaving each Analyze call returns the findings
\* it returns when it runs alone, and the registry holds the rules it held
\* before the analyses.
ConcurrentAnalysesDoNotInterfere ==
    /\ registry = {registered[k] : k \in DOMAIN registered}
    /\ \A w \in DOMAIN analyses :
          Returned(w) =>
              \A order \in MapOrders :
                  analyses[w].result = Analyze(analyses[w].dockerfile, config, order)

\* the second call has returned findings while the first, on another tree, is
\* in its loop with findings collected
ConcurrentAnalysesDoNotInterfereWitness ==
    /\ Len(analyses) = 2
    /\ analyses[1].dockerfile # analyses[2].dockerfile
    /\ analyses[1].pc = "rule"
    /\ analyses[1].allFindings # <<>>
    /\ analyses[1].rules # <<>>
    /\ Returned(2)
    /\ analyses[2].result # <<>>

====
